---------------------------- MODULE Spec2Model ----------------------------
(***************************************************************************)
(* Model of the command-execution pipeline of oh-my-pi:                    *)
(*   - OutputSink   (packages/coding-agent/src/core/streaming-output.ts)   *)
(*   - executeBash  (packages/coding-agent/src/exec/bash-executor.ts)      *)
(*                                                                         *)
(* A string is a sequence of one-character strings (and, for the fixed     *)
(* texts the code inserts, of literal pieces); string concatenation is \o. *)
(* An optional value (T | undefined) is <<>> or <<v>>.                     *)
(* Every async function is cut at its awaits: one action per segment that  *)
(* runs without yielding to the scheduler.                                 *)
(*                                                                         *)
(* push() hands sanitizeText(chunk) to #pushSanitized; sanitizeText is     *)
(* defined outside these sources and is modelled from the specification    *)
(* ("control characters normalized"): it drops the control character Ctrl. *)
(* A direct caller of the sink pushes text without control characters; the *)
(* runtime may deliver them.  executeBash builds its sink without a        *)
(* spillThreshold, so the sink takes DEFAULT_MAX_BYTES, also defined       *)
(* outside these sources: the model lets it range over Thresholds.         *)
(***************************************************************************)
EXTENDS Integers, Sequences, FiniteSets, TLC

(* ------------------------------ bounds -------------------------------- *)
\* longest chunk handed to one push
MaxChunkLen == 2
\* pushes a direct caller issues on one sink
MaxPushes == 3
\* largest spillThreshold a sink is configured with
MaxThreshold == 2
\* chunks the runtime delivers during one executeBash call
MaxExecChunks == 2
\* longest chunk the runtime delivers
MaxExecChunkLen == 1

Chars == {"a", "b"}

RECURSIVE StringsUpTo(_)
StringsUpTo(n) ==
    IF n = 0 THEN {<<>>}
    ELSE LET shorter == StringsUpTo(n - 1)
         IN  shorter \cup {Append(s, c) : s \in {t \in shorter : Len(t) = n - 1}, c \in Chars}

\* a control character, as a command may print
Ctrl == "ESC"

Chunks == StringsUpTo(MaxChunkLen)
ExecChunks == StringsUpTo(MaxExecChunkLen)
\* chunks for an observed invocation: plain text, and text with a control character
ObsChunks == {<<"a">>, <<"b">>, <<Ctrl, "b">>}
Thresholds == 0 .. MaxThreshold

VARIABLES
    spillThreshold,  \* OutputSink.#spillThreshold
    sink,            \* OutputSink: #buffer, #file (and the calls of #allocateFilePath)
    onChunk,         \* OutputSink.#onChunk: the live-chunk observer configured
    observed,        \* the chunks the observer was called with (history)
    frames,          \* the calls of push() made on the sink, each with its position
    dpc,             \* position of the dump() call: "none", "ending", "done"
    dumpNotice,      \* the notice dump() was called with
    dumpResult,      \* what dump() returned
    dumpCalls,       \* calls of dump() on the sink (history)
    epc,             \* position of executeBash
    hasSignal,       \* options.signal was given
    aborted,         \* signal.aborted
    firedAt,         \* position of executeBash when the token fired (history)
    listener,        \* abortListener is registered on the signal
    listenerAdds,    \* calls of signal.addEventListener (history)
    interrupts,      \* execution ids abortShellExecution() was called with (history)
    executionId,     \* crypto.randomUUID()
    timeout,         \* options.timeout
    queue,           \* chunks chained on pendingChunks whose push has not started
    delivered,       \* chunks the runtime handed to enqueueChunk (history)
    runCalls,        \* calls of executeShell (history)
    report,          \* what executeShell resolved with
    threw,           \* executeShell rejected
    outcome,         \* exitCode and cancelled of the return statement reached
    result,          \* what executeBash returned
    settings,        \* Settings: the configured shell, prefix and shell environment
    runLog,          \* the ShellExecuteOptions executeShell was called with (history)
    pair,            \* two executeBash invocations in flight: each one's locals
    pairInterrupts,  \* abortShellExecution calls: the token fired and the id named (history)
    rxInput,         \* a regex secret entry: its content and its flags field
    rxResult,        \* what compileSecretRegex did with it: a RegExp, or an exception
    secConfig,       \* the secret entries collected at session start, by source
    matcherSet,      \* the compiled matcher set
    secValue,        \* a structured value x handed to the redactor
    secRedacted,     \* redact(x)
    secRestored,     \* restore(redact(x))
    secDirect,       \* restore(x)
    capture,         \* the fields of one VoiceCapture
    media,           \* what the browser holds: streams, recorders, promises, timers
    startCalls,      \* the start() calls made on the capture
    stopCalls        \* the stop() calls made on the capture

sinkVars == <<spillThreshold, onChunk, observed, sink, frames, dpc, dumpNotice, dumpResult,
              dumpCalls>>
execVars == <<epc, hasSignal, aborted, firedAt, listener, listenerAdds, interrupts,
              executionId, timeout, queue, delivered, runCalls, report, threw, outcome,
              result>>
\* the state of the components below executeBash's single-invocation model
secVars == <<secConfig, matcherSet, secValue, secRedacted, secRestored, secDirect>>
voiceVars == <<capture, media, startCalls, stopCalls>>
extVars == <<settings, runLog, pair, pairInterrupts, rxInput, rxResult, secVars, voiceVars>>
vars == <<sinkVars, execVars, extVars>>

(* --------------------------- OutputSink -------------------------------- *)

NoFile == <<>>

\* new OutputSink(options): empty buffer, no file
NewSink == [buffer |-> <<>>, file |-> NoFile, allocs |-> 0]

Max(a, b) == IF a >= b THEN a ELSE b

\* String.prototype.slice(-n): a start of -0 is 0, so slice(-0) is the whole string
sliceLast(s, n) ==
    LET start == IF n = 0 THEN 0 ELSE Max(Len(s) - n, 0)
    IN  SubSeq(s, start + 1, Len(s))

\* faulty variants of bufferOverflow: >= for >, and the buffer's length left out
bufferOverflow_ge(sk, threshold, data) == Len(data) + Len(sk.buffer) >= threshold
bufferOverflow_dataOnly(sk, threshold, data) == Len(data) > threshold

\* const bufferOverflow = data.length + this.#buffer.length > this.#spillThreshold
bufferOverflow(sk, threshold, data) == Len(data) + Len(sk.buffer) > threshold

\* const overflow = this.#file || bufferOverflow
overflow(sk, threshold, data) == sk.file # NoFile \/ bufferOverflow(sk, threshold, data)

\* faulty variant of fileSink: the new file is not seeded with the buffer
fileSink_noSeed(sk) ==
    IF sk.file = NoFile
    THEN [sk EXCEPT !.allocs = @ + 1,
                    !.file = <<[path |-> sk.allocs + 1, content |-> <<>>, ended |-> FALSE,
                                ends |-> 0, lateWrites |-> 0]>>]
    ELSE sk

\* faulty variant of fileSink: every call opens a file of its own
fileSink_reopen(sk) ==
    [sk EXCEPT !.allocs = @ + 1,
               !.file = <<[path |-> sk.allocs + 1, content |-> sk.buffer, ended |-> FALSE,
                           ends |-> 0, lateWrites |-> 0]>>]

\* #fileSink() up to its await: the first call allocates the path, opens the
\* writer and writes the buffer to it; later calls return the open writer
fileSink(sk) ==
    IF sk.file = NoFile
    THEN [sk EXCEPT !.allocs = @ + 1,
                    !.file = <<[path |-> sk.allocs + 1, content |-> sk.buffer, ended |-> FALSE,
                                ends |-> 0, lateWrites |-> 0]>>]
    ELSE sk

\* sink.write(data) on the open writer: writes reach the file in call order;
\* a write the writer gets after end() is counted and leaves the file as it is
sinkWrite(sk, data) ==
    IF sk.file[1].ended
    THEN [sk EXCEPT !.file[1].lateWrites = @ + 1]
    ELSE [sk EXCEPT !.file[1].content = @ \o data]

\* this.#buffer += data
appendBuffer(sk, data) == [sk EXCEPT !.buffer = @ \o data]

\* #pushSanitized(data) from its call to its first await
pushSanitizedCall(sk, threshold, data) ==
    LET bo == bufferOverflow(sk, threshold, data)
    IN  IF overflow(sk, threshold, data)
        THEN [sink |-> fileSink(sk),
              frame |-> [data |-> data, pc |-> "fileSink", bufferOverflow |-> bo]]
        ELSE [sink |-> appendBuffer(sk, data),
              frame |-> [data |-> data, pc |-> "write", bufferOverflow |-> bo]]

\* #pushSanitized resumed with the writer: append to the buffer, write to the file
pushSanitizedAppend(sk, fr) == sinkWrite(appendBuffer(sk, fr.data), fr.data)

\* #pushSanitized resumed after the write: trim the buffer to its tail
pushSanitizedTrim(sk, threshold, fr) ==
    IF fr.bufferOverflow
    THEN [sk EXCEPT !.buffer = sliceLast(@, threshold)]
    ELSE sk

\* `await sink.push(data)` with nothing interleaved: the three segments in a row
pushSequential(sk, threshold, data) ==
    LET r == pushSanitizedCall(sk, threshold, data)
        appended == IF r.frame.pc = "fileSink"
                    THEN pushSanitizedAppend(r.sink, r.frame)
                    ELSE r.sink
    IN  pushSanitizedTrim(appended, threshold, r.frame)

\* const noticeLine = notice ? `[${notice}]\n` : ""
noticeLine(notice) ==
    IF notice = <<>> THEN <<>> ELSE <<"[">> \o notice \o <<"]", "\n">>

\* faulty variant of dumpOutput: the spill file is never reported
dumpOutput_neverTruncated(sk, notice) ==
    [output |-> noticeLine(notice) \o sk.buffer,
     truncated |-> FALSE,
     fullOutputPath |-> <<>>]

\* the OutputResult dump(notice) returns for the sink as it is
dumpOutput(sk, notice) ==
    IF sk.file # NoFile
    THEN [output |-> noticeLine(notice) \o <<".", ".", ".">> \o sk.buffer,
          truncated |-> TRUE,
          fullOutputPath |-> <<sk.file[1].path>>]
    ELSE [output |-> noticeLine(notice) \o sk.buffer,
          truncated |-> FALSE,
          fullOutputPath |-> <<>>]

\* await this.#file.sink.end()
sinkEnd(sk) == [sk EXCEPT !.file[1].ended = TRUE, !.file[1].ends = @ + 1]

\* chunk = sanitizeText(chunk): control characters are dropped
sanitizeText(chunk) == SelectSeq(chunk, LAMBDA c : c # Ctrl)

\* the observers a caller configures: none, one that returns normally, one
\* that throws on every chunk holding an "a"
Observers == {"none", "ok", "throwsOnA"}

\* this.#onChunk?.(data) throws
observerThrows(obs, data) ==
    obs = "throwsOnA" /\ \E k \in 1 .. Len(data) : data[k] = "a"

\* faulty variant of observerLog: the observer is told twice
observerLog_twice(obs, log, data) ==
    IF obs = "none" THEN log ELSE Append(Append(log, data), data)

\* this.#onChunk?.(data): what the observer has been called with
observerLog(obs, log, data) == IF obs = "none" THEN log ELSE Append(log, data)

\* a push has settled: it returned, or it rejected because the observer threw
PushSettled(fr) == fr.pc \in {"done", "failed"}

AllPushesDone == \A i \in 1 .. Len(frames) : PushSettled(frames[i])

\* sink.push(chunk), run to its first await: the chunk is sanitized, the
\* observer is called first, and its exception leaves #pushSanitized at once
PushCall(chunk) ==
    LET data == sanitizeText(chunk)
        r == pushSanitizedCall(sink, spillThreshold, data)
    IN  /\ observed' = observerLog(onChunk, observed, data)
        /\ IF observerThrows(onChunk, data)
           THEN /\ sink' = sink
                /\ frames' = Append(frames, [data |-> data, pc |-> "failed",
                                             bufferOverflow |-> FALSE])
           ELSE /\ sink' = r.sink
                /\ frames' = Append(frames, r.frame)

\* push i resumes after `await this.#fileSink()`
PushAppend(i) ==
    /\ frames[i].pc = "fileSink"
    /\ sink' = pushSanitizedAppend(sink, frames[i])
    /\ frames' = [frames EXCEPT ![i].pc = "write"]
    /\ UNCHANGED <<spillThreshold, onChunk, observed, dpc, dumpNotice, dumpResult, dumpCalls>>

\* push i resumes after `await sink?.write(data)` and returns
PushTrim(i) ==
    /\ frames[i].pc = "write"
    /\ sink' = pushSanitizedTrim(sink, spillThreshold, frames[i])
    /\ frames' = [frames EXCEPT ![i].pc = "done"]
    /\ UNCHANGED <<spillThreshold, onChunk, observed, dpc, dumpNotice, dumpResult, dumpCalls>>

\* dump(notice) from its call to its await (with a file) or its return (without)
DumpCall(notice) ==
    /\ dumpNotice' = notice
    /\ dumpCalls' = dumpCalls + 1
    /\ IF sink.file # NoFile
       THEN /\ sink' = sinkEnd(sink)
            /\ dpc' = "ending"
            /\ dumpResult' = dumpResult
       ELSE /\ sink' = sink
            /\ dpc' = "done"
            /\ dumpResult' = <<dumpOutput(sink, notice)>>

\* dump() resumes after `await this.#file.sink.end()` and returns
DumpReturn ==
    /\ dpc' = "done"
    /\ dumpResult' = <<dumpOutput(sink, dumpNotice)>>
    /\ UNCHANGED <<sink, dumpNotice, dumpCalls>>

(* ------------- a caller that awaits each push, then dumps -------------- *)

Notices == {<<>>, <<"Command cancelled">>}

SinkPush ==
    /\ dpc = "none"
    /\ AllPushesDone
    /\ Len(frames) < MaxPushes
    /\ \E data \in Chunks : PushCall(data)
    /\ UNCHANGED <<spillThreshold, onChunk, dpc, dumpNotice, dumpResult, dumpCalls,
                   execVars>>
    /\ UNCHANGED extVars

SinkPushAppend ==
    /\ \E i \in 1 .. Len(frames) : PushAppend(i)
    /\ UNCHANGED execVars
    /\ UNCHANGED extVars

SinkPushTrim ==
    /\ \E i \in 1 .. Len(frames) : PushTrim(i)
    /\ UNCHANGED execVars
    /\ UNCHANGED extVars

SinkDump ==
    /\ dpc = "none"
    /\ AllPushesDone
    /\ \E notice \in Notices : DumpCall(notice)
    /\ UNCHANGED <<spillThreshold, onChunk, observed, frames, execVars>>
    /\ UNCHANGED extVars

SinkDumpReturn ==
    /\ dpc = "ending"
    /\ DumpReturn
    /\ UNCHANGED <<spillThreshold, onChunk, observed, frames, execVars>>
    /\ UNCHANGED extVars

\* the components a specification does not exercise stay as constructed
InvokeIdle ==
    /\ settings = <<>>
    /\ runLog = <<>>

PairIdle ==
    /\ pair = <<>>
    /\ pairInterrupts = <<>>

RegexIdle ==
    /\ rxInput = <<>>
    /\ rxResult = <<>>

SecretsIdle ==
    /\ secConfig = <<>>
    /\ matcherSet = <<>>
    /\ secValue = <<>>
    /\ secRedacted = <<>>
    /\ secRestored = <<>>
    /\ secDirect = <<>>

VoiceIdle ==
    /\ capture = <<>>
    /\ media = <<>>
    /\ startCalls = <<>>
    /\ stopCalls = <<>>

ExtIdle == InvokeIdle /\ PairIdle /\ RegexIdle /\ SecretsIdle /\ VoiceIdle

ExecIdle ==
    /\ epc = "unused"
    /\ hasSignal = FALSE
    /\ aborted = FALSE
    /\ firedAt = "never"
    /\ listener = FALSE
    /\ listenerAdds = 0
    /\ interrupts = <<>>
    /\ executionId = "none"
    /\ timeout = <<>>
    /\ queue = <<>>
    /\ delivered = <<>>
    /\ runCalls = 0
    /\ report = <<>>
    /\ threw = FALSE
    /\ outcome = <<>>
    /\ result = <<>>

SinkInit ==
    /\ spillThreshold \in Thresholds
    /\ onChunk = "none"
    /\ observed = <<>>
    /\ sink = NewSink
    /\ frames = <<>>
    /\ dpc = "none"
    /\ dumpNotice = <<>>
    /\ dumpResult = <<>>
    /\ dumpCalls = 0
    /\ ExecIdle
    /\ ExtIdle

SinkNext == SinkPush \/ SinkPushAppend \/ SinkPushTrim \/ SinkDump \/ SinkDumpReturn

SpecSink == SinkInit /\ [][SinkNext]_vars


(* ---------------------------- executeBash ------------------------------ *)

ExecIds == {"id1", "id2"}
\* options.timeout in milliseconds: none, 0, and two durations
Timeouts == {<<>>, <<0>>, <<50>>, <<1600>>}
ExitCodes == {<<>>, <<0>>, <<7>>}
\* ShellExecuteResult: every combination the runtime can hand back
Reports == [exitCode : ExitCodes, cancelled : BOOLEAN, timedOut : BOOLEAN]

\* faulty variant of abortListener: the interrupt names another execution
abortListener_otherId(log, id) == Append(log, "other")

\* abortListener = () => { abortShellExecution(executionId) }
abortListener(log, id) == Append(log, id)

\* faulty variant of shortCircuit: the fired token is not looked at
shortCircuit_never(sig, ab) == FALSE

\* if (options?.signal) { if (signal.aborted) { return ... } }
shortCircuit(sig, ab) == sig /\ ab

\* faulty variant of timeoutSeconds: truncation instead of Math.round
timeoutSeconds_floor(ms) == ms \div 1000

\* Math.round(options.timeout / 1000), for a timeout >= 0
timeoutSeconds(ms) == (ms + 500) \div 1000

\* options?.timeout ? `Command timed out after ${...} seconds` : "Command timed out"
timeoutAnnotation(t) ==
    IF t # <<>> /\ t[1] # 0
    THEN <<"Command timed out after ", ToString(timeoutSeconds(t[1])), " seconds">>
    ELSE <<"Command timed out">>

\* faulty variants of classify: the cancelled report is not looked at; the normal
\* return loses the exit code; the cancelled return keeps the exit code
classify_ignoreCancelled(rep, t) ==
    IF rep.timedOut
    THEN [exitCode |-> <<>>, cancelled |-> TRUE, notice |-> timeoutAnnotation(t)]
    ELSE [exitCode |-> rep.exitCode, cancelled |-> FALSE, notice |-> <<>>]
classify_dropExit(rep, t) ==
    IF rep.timedOut
    THEN [exitCode |-> <<>>, cancelled |-> TRUE, notice |-> timeoutAnnotation(t)]
    ELSE IF rep.cancelled
    THEN [exitCode |-> <<>>, cancelled |-> TRUE, notice |-> <<"Command cancelled">>]
    ELSE [exitCode |-> <<>>, cancelled |-> FALSE, notice |-> <<>>]
classify_keepExit(rep, t) ==
    IF rep.timedOut
    THEN [exitCode |-> <<>>, cancelled |-> TRUE, notice |-> timeoutAnnotation(t)]
    ELSE IF rep.cancelled
    THEN [exitCode |-> rep.exitCode, cancelled |-> TRUE, notice |-> <<"Command cancelled">>]
    ELSE [exitCode |-> rep.exitCode, cancelled |-> FALSE, notice |-> <<>>]

\* faulty variant of classify: the cancelled report is looked at first
classify_cancelFirst(rep, t) ==
    IF rep.cancelled
    THEN [exitCode |-> <<>>, cancelled |-> TRUE, notice |-> <<"Command cancelled">>]
    ELSE IF rep.timedOut
    THEN [exitCode |-> <<>>, cancelled |-> TRUE, notice |-> timeoutAnnotation(t)]
    ELSE [exitCode |-> rep.exitCode, cancelled |-> FALSE, notice |-> <<>>]

\* the three return statements after `await pendingChunks`
classify(rep, t) ==
    IF rep.timedOut
    THEN [exitCode |-> <<>>, cancelled |-> TRUE, notice |-> timeoutAnnotation(t)]
    ELSE IF rep.cancelled
    THEN [exitCode |-> <<>>, cancelled |-> TRUE, notice |-> <<"Command cancelled">>]
    ELSE [exitCode |-> rep.exitCode, cancelled |-> FALSE, notice |-> <<>>]

\* { exitCode, cancelled, ...(await sink.dump(notice)) }: the two fields the
\* return statement names, then every field of the sink's result spread over
\* them.  The sink is the OutputSink of core/streaming-output.ts.
bashResult(out, dumped) ==
    [f \in {"exitCode", "cancelled"} \cup DOMAIN dumped |->
        IF f \in DOMAIN dumped THEN dumped[f] ELSE out[f]]

\* faulty variant of pendingChunksRejects: no .catch(() => {}) on the chain
pendingChunksRejects_noCatch(frs) == \E i \in 1 .. Len(frs) : frs[i].pc = "failed"

\* pendingChunks = pendingChunks.then(() => sink.push(chunk)).catch(() => {}):
\* a rejected push is swallowed, the chain itself never rejects
pendingChunksRejects(frs) == FALSE

\* faulty variant of QueueDrained: the chain is not awaited
QueueDrained_noAwait == TRUE

\* `await pendingChunks` lets executeBash go on
QueueDrained == queue = <<>> /\ AllPushesDone

\* faulty variant of removeEventListener: the listener stays on the signal
removeEventListener_noop(l) == l

\* options.signal.removeEventListener("abort", abortListener)
removeEventListener(l) == FALSE

\* faulty variant of executeBashSettles: the runtime's exception is swallowed
executeBashSettles_swallow(thr, rej) == "settled"

\* how executeBash settles after its finally block: an exception of
\* executeShell (or of an awaited chain) leaves through the finally block
executeBashSettles(thr, rej) == IF thr \/ rej THEN "rejected" ELSE "settled"

\* faulty variant of FireToken: the abort settles the call locally
FireToken_settles ==
    /\ hasSignal
    /\ ~aborted
    /\ aborted' = TRUE
    /\ firedAt' = epc
    /\ interrupts' = IF listener THEN abortListener(interrupts, executionId) ELSE interrupts
    /\ listener' = FALSE
    /\ epc' = IF epc = "running" THEN "settled" ELSE epc
    /\ UNCHANGED <<sinkVars, hasSignal, listenerAdds, executionId, timeout, queue,
                   delivered, runCalls, report, threw, outcome, result>>
    /\ UNCHANGED extVars

\* controller.abort(): the signal becomes aborted and its listeners run, the
\* once-listener being removed as it runs
FireToken ==
    /\ hasSignal
    /\ ~aborted
    /\ aborted' = TRUE
    /\ firedAt' = epc
    /\ interrupts' = IF listener THEN abortListener(interrupts, executionId) ELSE interrupts
    /\ listener' = FALSE
    /\ UNCHANGED <<sinkVars, epc, hasSignal, listenerAdds, executionId, timeout, queue,
                   delivered, runCalls, report, threw, outcome, result>>
    /\ UNCHANGED extVars

\* executeBash up to `return { ..., ...(await sink.dump("Command cancelled")) }`
ExecShortCircuit ==
    /\ epc = "init"
    /\ shortCircuit(hasSignal, aborted)
    /\ DumpCall(<<"Command cancelled">>)
    /\ outcome' = <<[exitCode |-> <<>>, cancelled |-> TRUE]>>
    /\ epc' = "shortDump"
    /\ UNCHANGED <<spillThreshold, onChunk, observed, frames, hasSignal, aborted, firedAt, listener,
                   listenerAdds, interrupts, executionId, timeout, queue, delivered,
                   runCalls, report, threw, result>>
    /\ UNCHANGED extVars

\* the short-circuit return: no try block, so no finally
ExecShortReturn ==
    /\ epc = "shortDump"
    /\ dpc = "done"
    /\ result' = <<bashResult(outcome[1], dumpResult[1])>>
    /\ epc' = "settled"
    /\ UNCHANGED <<sinkVars, hasSignal, aborted, firedAt, listener, listenerAdds,
                   interrupts, executionId, timeout, queue, delivered, runCalls, report,
                   threw, outcome>>
    /\ UNCHANGED extVars

\* executeBash from the listener's registration to `await executeShell(...)`
ExecRun ==
    /\ epc = "init"
    /\ ~shortCircuit(hasSignal, aborted)
    /\ listener' = hasSignal
    /\ listenerAdds' = IF hasSignal THEN listenerAdds + 1 ELSE listenerAdds
    /\ runCalls' = runCalls + 1
    /\ epc' = "running"
    /\ UNCHANGED <<sinkVars, hasSignal, aborted, firedAt, interrupts, executionId,
                   timeout, queue, delivered, report, threw, outcome, result>>
    /\ UNCHANGED extVars

\* the runtime calls enqueueChunk(chunk)
enqueueChunk(chunk) ==
    /\ epc = "running"
    /\ Len(delivered) < MaxExecChunks
    /\ queue' = Append(queue, chunk)
    /\ delivered' = Append(delivered, chunk)
    /\ UNCHANGED <<sinkVars, epc, hasSignal, aborted, firedAt, listener, listenerAdds,
                   interrupts, executionId, timeout, runCalls, report, threw, outcome,
                   result>>
    /\ UNCHANGED extVars

RuntimeChunk == \E chunk \in ExecChunks : enqueueChunk(chunk)

\* executeShell resolves
RuntimeResolve ==
    /\ epc = "running"
    /\ \E rep \in Reports : report' = <<rep>>
    /\ epc' = "drain"
    /\ UNCHANGED <<sinkVars, hasSignal, aborted, firedAt, listener, listenerAdds,
                   interrupts, executionId, timeout, queue, delivered, runCalls, threw,
                   outcome, result>>
    /\ UNCHANGED extVars

\* executeShell rejects: control goes to the finally block
RuntimeReject ==
    /\ epc = "running"
    /\ threw' = TRUE
    /\ epc' = "finally"
    /\ UNCHANGED <<sinkVars, hasSignal, aborted, firedAt, listener, listenerAdds,
                   interrupts, executionId, timeout, queue, delivered, runCalls, report,
                   outcome, result>>
    /\ UNCHANGED extVars

\* pendingChunks.then(() => sink.push(chunk)): the next chunk's push starts
\* when the push before it has settled; a rejected chain would skip it
QueuePush ==
    /\ queue # <<>>
    /\ AllPushesDone
    /\ IF pendingChunksRejects(frames)
       THEN UNCHANGED <<observed, sink, frames>>
       ELSE PushCall(Head(queue))
    /\ queue' = Tail(queue)
    /\ UNCHANGED <<spillThreshold, onChunk, dpc, dumpNotice, dumpResult, dumpCalls,
                   epc, hasSignal, aborted,
                   firedAt, listener, listenerAdds, interrupts, executionId, timeout,
                   delivered, runCalls, report, threw, outcome, result>>
    /\ UNCHANGED extVars

QueuePushAppend ==
    /\ \E i \in 1 .. Len(frames) : PushAppend(i)
    /\ UNCHANGED execVars
    /\ UNCHANGED extVars

QueuePushTrim ==
    /\ \E i \in 1 .. Len(frames) : PushTrim(i)
    /\ UNCHANGED execVars
    /\ UNCHANGED extVars

\* after `await pendingChunks`: the return statement chosen, up to its
\* `await sink.dump(...)`
ExecClassify ==
    /\ epc = "drain"
    /\ QueueDrained
    /\ IF pendingChunksRejects(frames)
       THEN /\ epc' = "finally"
            /\ UNCHANGED <<sink, dpc, dumpNotice, dumpResult, dumpCalls, outcome>>
       ELSE LET c == classify(report[1], timeout)
            IN  /\ DumpCall(c.notice)
                /\ outcome' = <<[exitCode |-> c.exitCode, cancelled |-> c.cancelled]>>
                /\ epc' = "dump"
    /\ UNCHANGED <<spillThreshold, onChunk, observed, frames, hasSignal, aborted, firedAt, listener,
                   listenerAdds, interrupts, executionId, timeout, queue, delivered,
                   runCalls, report, threw, result>>
    /\ UNCHANGED extVars

\* dump() resumes after the writer's end()
ExecDumpReturn ==
    /\ epc \in {"dump", "shortDump"}
    /\ dpc = "ending"
    /\ DumpReturn
    /\ UNCHANGED <<spillThreshold, onChunk, observed, frames, execVars>>
    /\ UNCHANGED extVars

\* the return value is built; the finally block is entered
ExecReturn ==
    /\ epc = "dump"
    /\ dpc = "done"
    /\ result' = <<bashResult(outcome[1], dumpResult[1])>>
    /\ epc' = "finally"
    /\ UNCHANGED <<sinkVars, hasSignal, aborted, firedAt, listener, listenerAdds,
                   interrupts, executionId, timeout, queue, delivered, runCalls, report,
                   threw, outcome>>
    /\ UNCHANGED extVars

\* finally { await pendingChunks; removeEventListener }: executeBash settles
ExecFinally ==
    /\ epc = "finally"
    /\ QueueDrained
    /\ listener' = IF pendingChunksRejects(frames)
                   THEN listener
                   ELSE removeEventListener(listener)
    /\ epc' = executeBashSettles(threw, pendingChunksRejects(frames))
    /\ UNCHANGED <<sinkVars, hasSignal, aborted, firedAt, listenerAdds, interrupts,
                   executionId, timeout, queue, delivered, runCalls, report, threw,
                   outcome, result>>
    /\ UNCHANGED extVars

\* the caller invokes executeBash again, with the same cancellation token:
\* a new execution id, a new sink, the token as the calls before left it
ExecAgain ==
    /\ epc \in {"settled", "rejected"}
    /\ epc' = "init"
    /\ sink' = NewSink
    /\ frames' = <<>>
    /\ observed' = <<>>
    /\ dpc' = "none"
    /\ dumpNotice' = <<>>
    /\ dumpResult' = <<>>
    /\ dumpCalls' = 0
    /\ firedAt' = IF aborted THEN "init" ELSE "never"
    /\ listenerAdds' = 0
    /\ interrupts' = <<>>
    /\ executionId' \in ExecIds
    /\ timeout' \in Timeouts
    /\ queue' = <<>>
    /\ delivered' = <<>>
    /\ runCalls' = 0
    /\ report' = <<>>
    /\ threw' = FALSE
    /\ outcome' = <<>>
    /\ result' = <<>>
    /\ UNCHANGED <<spillThreshold, onChunk, hasSignal, aborted, listener>>
    /\ UNCHANGED extVars

ExecInit ==
    /\ spillThreshold \in Thresholds
    /\ onChunk = "none"
    /\ observed = <<>>
    /\ sink = NewSink
    /\ frames = <<>>
    /\ dpc = "none"
    /\ dumpNotice = <<>>
    /\ dumpResult = <<>>
    /\ dumpCalls = 0
    /\ epc = "init"
    /\ hasSignal \in BOOLEAN
    /\ aborted = FALSE
    /\ firedAt = "never"
    /\ listener = FALSE
    /\ listenerAdds = 0
    /\ interrupts = <<>>
    /\ executionId \in ExecIds
    /\ timeout \in Timeouts
    /\ queue = <<>>
    /\ delivered = <<>>
    /\ runCalls = 0
    /\ report = <<>>
    /\ threw = FALSE
    /\ outcome = <<>>
    /\ result = <<>>
    /\ ExtIdle

ExecNext ==
    \/ FireToken
    \/ ExecShortCircuit
    \/ ExecShortReturn
    \/ ExecRun
    \/ RuntimeChunk
    \/ RuntimeResolve
    \/ RuntimeReject
    \/ QueuePush
    \/ QueuePushAppend
    \/ QueuePushTrim
    \/ ExecClassify
    \/ ExecDumpReturn
    \/ ExecReturn
    \/ ExecFinally
    \/ ExecAgain

SpecExec == ExecInit /\ [][ExecNext]_vars

(* ------------- executeBash with a live-chunk observer ------------------ *)

\* options.onChunk is given, no cancellation token is
ObsInit ==
    /\ spillThreshold \in Thresholds
    /\ onChunk \in Observers \ {"none"}
    /\ observed = <<>>
    /\ sink = NewSink
    /\ frames = <<>>
    /\ dpc = "none"
    /\ dumpNotice = <<>>
    /\ dumpResult = <<>>
    /\ dumpCalls = 0
    /\ epc = "init"
    /\ hasSignal = FALSE
    /\ aborted = FALSE
    /\ firedAt = "never"
    /\ listener = FALSE
    /\ listenerAdds = 0
    /\ interrupts = <<>>
    /\ executionId = "id1"
    /\ timeout \in Timeouts
    /\ queue = <<>>
    /\ delivered = <<>>
    /\ runCalls = 0
    /\ report = <<>>
    /\ threw = FALSE
    /\ outcome = <<>>
    /\ result = <<>>
    /\ ExtIdle

ObsRuntimeChunk == \E chunk \in ObsChunks : enqueueChunk(chunk)

ObsNext ==
    \/ ExecRun
    \/ ObsRuntimeChunk
    \/ RuntimeResolve
    \/ RuntimeReject
    \/ QueuePush
    \/ QueuePushAppend
    \/ QueuePushTrim
    \/ ExecClassify
    \/ ExecDumpReturn
    \/ ExecReturn
    \/ ExecFinally

SpecObs == ObsInit /\ [][ObsNext]_vars

(* ---------------------- what was pushed so far ------------------------- *)

RECURSIVE Concat(_)
Concat(ss) == IF ss = <<>> THEN <<>> ELSE Head(ss) \o Concat(Tail(ss))

\* the chunks pushed so far, in push order
Pushed == [i \in 1 .. Len(frames) |-> frames[i].data]

\* the entire output pushed so far
Text == Concat(Pushed)

FileContent(sk) == IF sk.file = NoFile THEN <<>> ELSE sk.file[1].content

Min(a, b) == IF a <= b THEN a ELSE b

\* the last n characters of s (all of s when it is shorter)
LastChars(s, n) == SubSeq(s, Len(s) - Min(n, Len(s)) + 1, Len(s))

(* ------------------------- claims on the sink -------------------------- *)

\* C1: while the chunks pushed so far total at most spillThreshold no spill
\* file exists and no path was allocated, and dump() then returns the exact
\* concatenation of the chunks in push order (after the notice line, if a
\* notice was given), truncated = false and no spill path.
C1_NoSpillExactConcat ==
    Len(Text) <= spillThreshold =>
        /\ sink.file = NoFile
        /\ sink.allocs = 0
        /\ dpc = "done" =>
            /\ dumpResult[1].truncated = FALSE
            /\ dumpResult[1].fullOutputPath = <<>>
            /\ dumpNotice = <<>> => dumpResult[1].output = Text
            /\ dumpNotice # <<>> =>
                   dumpResult[1].output = <<"[">> \o dumpNotice \o <<"]", "\n">> \o Text

C1_Witness ==
    /\ dpc = "done"
    /\ dumpNotice = <<>>
    /\ Len(frames) = 2
    /\ frames[1].data = <<"a">>
    /\ frames[2].data = <<"b">>
    /\ spillThreshold = 2

\* C2: when the chunks pushed total more than spillThreshold, dump() returns
\* truncated = true with the spill path, and the (closed) spill file holds
\* exactly the concatenation of all chunks in push order.
C2_SpillFileComplete ==
    (dpc = "done" /\ Len(Text) > spillThreshold) =>
        /\ dumpResult[1].truncated = TRUE
        /\ sink.file # NoFile
        /\ dumpResult[1].fullOutputPath = <<sink.file[1].path>>
        /\ sink.file[1].content = Text
        /\ sink.file[1].ended
        /\ sink.allocs = 1

C2_Witness ==
    /\ dpc = "done"
    /\ spillThreshold = 2
    /\ Len(frames) = 3
    /\ frames[1].data = <<"a">>
    /\ frames[2].data = <<"b", "a">>
    /\ frames[3].data = <<"b">>
    /\ sink.file # NoFile

\* C3 (as claimed): after every completed push, without a spill file the
\* buffer is the entire output so far; with one, the buffer is the last
\* spillThreshold characters of the output, no longer than spillThreshold,
\* and the file holds the entire output.
C3_BufferInvariant ==
    AllPushesDone =>
        /\ sink.file = NoFile => sink.buffer = Text
        /\ sink.file # NoFile =>
            /\ sink.buffer = LastChars(Text, spillThreshold)
            /\ Len(sink.buffer) <= spillThreshold
            /\ sink.file[1].content = Text

\* C3 restricted to a spillThreshold of at least 1, where the code keeps it
C3_BufferInvariantPositive == spillThreshold >= 1 => C3_BufferInvariant

\* C4: the result depends on the text only, not on how it was cut into
\* chunks: dump() returns what it returns after the whole text was pushed as
\* one chunk into a fresh sink with the same threshold, and the spill file
\* exists in both or neither, with the same content.
C4_ChunkingIrrelevant ==
    dpc = "done" =>
        LET one == pushSequential(NewSink, spillThreshold, Text)
        IN  /\ dumpResult[1] = dumpOutput(one, dumpNotice)
            /\ (sink.file = NoFile) = (one.file = NoFile)
            /\ FileContent(sink) = FileContent(one)

C4_Witness ==
    /\ dpc = "done"
    /\ spillThreshold = 2
    /\ Len(frames) = 3
    /\ \A i \in 1 .. 3 : frames[i].data = <<"a">>
    /\ dumpResult[1].truncated

(* ------------------------ claims on executeBash ------------------------ *)

Settled == epc = "settled"

\* the output starts with the bracketed line of this notice
StartsWithNotice(output, notice) ==
    /\ Len(output) >= Len(notice) + 3
    /\ SubSeq(output, 1, Len(notice) + 3) = <<"[">> \o notice \o <<"]", "\n">>

\* the output starts with no bracketed line at all
NoNoticeLine(output) == output = <<>> \/ Head(output) # "["

CancelNotice == <<"Command cancelled">>

\* C5: the interrupt is requested at most once, only with this invocation's
\* execution id and only after the run call was made; exactly once when the
\* token fires while the run call is in flight; never when the token has not
\* fired or had fired before the call started.
C5_InterruptOnce ==
    /\ Len(interrupts) <= 1
    /\ \A k \in 1 .. Len(interrupts) : interrupts[k] = executionId
    /\ interrupts # <<>> => runCalls = 1 /\ aborted
    /\ firedAt = "running" => interrupts = <<executionId>>
    /\ ~aborted => interrupts = <<>>
    /\ firedAt = "init" => interrupts = <<>>

C5_Witness ==
    /\ Settled
    /\ firedAt = "running"
    /\ interrupts = <<executionId>>
    /\ report[1].cancelled

\* the report abides by ShellExecuteResult's interface: exitCode is undefined
\* exactly when the command was cancelled or timed out
ReportWellFormed ==
    report # <<>> =>
        ((report[1].exitCode = <<>>) = (report[1].cancelled \/ report[1].timedOut))

\* C6 (as claimed): a token fired before the runtime call or while it is in
\* flight always ends in the Cancelled state. Stated here for the runs in
\* which the runtime abides by its interface and reports no timeout, where
\* the claim fails already: the command exits before the interrupt reaches it.
C6_FiredMeansCancelled ==
    (/\ Settled
     /\ firedAt \in {"init", "running"}
     /\ ReportWellFormed
     /\ report # <<>> => ~report[1].timedOut) =>
        /\ result[1].cancelled
        /\ result[1].exitCode = <<>>
        /\ StartsWithNotice(result[1].output, CancelNotice)

\* C6 (amended): a token already fired at the cancellation check ends in the
\* Cancelled state, and so does a token fired during execution once the
\* runtime reports cancellation and no timeout; a fired token never makes
\* executeBash reject (it rejects only when the run call rejects).
C6_CancelledWhenReported ==
    /\ (Settled /\ firedAt = "init") =>
        /\ result[1].cancelled
        /\ result[1].exitCode = <<>>
        /\ StartsWithNotice(result[1].output, CancelNotice)
    /\ (Settled /\ firedAt \notin {"never", "init"}
                /\ report[1].cancelled /\ ~report[1].timedOut) =>
        /\ result[1].cancelled
        /\ result[1].exitCode = <<>>
        /\ StartsWithNotice(result[1].output, CancelNotice)
    /\ epc = "rejected" => threw /\ result = <<>>
    /\ (aborted /\ ~threw /\ epc \in {"settled", "rejected"}) => Settled /\ result # <<>>

C6_Witness ==
    /\ Settled
    /\ firedAt = "running"
    /\ report[1].cancelled
    /\ ~report[1].timedOut
    /\ result[1].cancelled
    /\ delivered # <<>>

\* C7: with the token already fired at the cancellation check, the run
\* operation is never invoked, no listener is registered, no interrupt is
\* requested, and the result is cancelled = true, exitCode undefined, with an
\* output that is the cancellation notice line and nothing else.
C7_ShortCircuit ==
    firedAt = "init" =>
        /\ runCalls = 0
        /\ listenerAdds = 0
        /\ ~listener
        /\ interrupts = <<>>
        /\ delivered = <<>>
        /\ epc \in {"init", "shortDump", "settled"}
        /\ Settled =>
            /\ result[1].cancelled
            /\ result[1].exitCode = <<>>
            /\ result[1].output = <<"[", "Command cancelled", "]", "\n">>
            /\ ~result[1].truncated

C7_Witness == Settled /\ firedAt = "init" /\ result # <<>>

\* a timeout is configured: options.timeout is given and is not 0
TimeoutConfigured == timeout # <<>> /\ timeout[1] # 0

\* the timeout notice names n seconds
TimeoutNoticeOf(n) == <<"Command timed out after ", ToString(n), " seconds">>

\* C8: when the runtime reports timedOut, the result has exitCode undefined
\* and cancelled = true and the output starts with a timeout notice; with a
\* timeout configured the notice names it in seconds, rounded to the nearest
\* whole second.
C8_TimedOut ==
    (Settled /\ report # <<>> /\ report[1].timedOut) =>
        /\ result[1].exitCode = <<>>
        /\ result[1].cancelled
        /\ TimeoutConfigured =>
            \E n \in 0 .. (timeout[1] \div 1000) + 1 :
                /\ 1000 * n - 500 <= timeout[1]
                /\ timeout[1] < 1000 * n + 500
                /\ StartsWithNotice(result[1].output, TimeoutNoticeOf(n))
        /\ ~TimeoutConfigured =>
            StartsWithNotice(result[1].output, <<"Command timed out">>)

C8_Witness ==
    /\ Settled
    /\ report # <<>>
    /\ report[1].timedOut
    /\ timeout = <<1600>>
    /\ StartsWithNotice(result[1].output, TimeoutNoticeOf(2))

\* C9: when the runtime reports neither timeout nor cancellation (and, as its
\* interface says for that case, an exit code), the result carries that exit
\* code, cancelled = false, and an output without a notice line.
C9_Completed ==
    (Settled /\ report # <<>> /\ ~report[1].timedOut /\ ~report[1].cancelled
             /\ report[1].exitCode # <<>>) =>
        /\ result[1].exitCode # <<>>
        /\ result[1].exitCode = report[1].exitCode
        /\ ~result[1].cancelled
        /\ NoNoticeLine(result[1].output)

C9_Witness ==
    /\ Settled
    /\ report # <<>>
    /\ report[1] = [exitCode |-> <<7>>, cancelled |-> FALSE, timedOut |-> FALSE]
    /\ result[1].exitCode = <<7>>
    /\ ~result[1].cancelled

\* C10: no result has cancelled = true together with a defined exitCode.
C10_CancelledHasNoExitCode ==
    result # <<>> => ~(result[1].cancelled /\ result[1].exitCode # <<>>)

C10_Witness ==
    /\ Settled
    /\ report # <<>>
    /\ report[1] = [exitCode |-> <<7>>, cancelled |-> TRUE, timedOut |-> FALSE]
    /\ result[1].cancelled
    /\ result[1].exitCode = <<>>


(* --------------------- claims on the chunk queue ----------------------- *)

\* the text executeBash has reconstructed: the spill file once there is one,
\* the buffer before
SinkText == IF sink.file # NoFile THEN sink.file[1].content ELSE sink.buffer

\* the chunks the runtime delivered, sanitized, in delivery order
DeliveredSanitized == [i \in 1 .. Len(delivered) |-> sanitizeText(delivered[i])]

\* the pushes not yet settled
PushesInFlight == {i \in 1 .. Len(frames) : ~PushSettled(frames[i])}

\* dump() was called by the part of executeBash after the run call
DumpedAfterRun == dumpCalls > 0 /\ runCalls > 0

\* C11: the text executeBash reconstructs (buffer and spill file) is the
\* concatenation of the chunks in the order the runtime delivered them.
C11_TextIsDeliveredConcat ==
    DumpedAfterRun => SinkText = Concat(DeliveredSanitized)

\* the part of C11 the queue does guarantee: pushes start in delivery order,
\* one at a time, and the text is the concatenation, in that order, of the
\* chunks whose push did not fail
C11_PushesNeverOverlap ==
    /\ Cardinality(PushesInFlight) <= 1
    /\ Len(frames) <= Len(delivered)
    /\ \A i \in 1 .. Len(frames) : frames[i].data = sanitizeText(delivered[i])
    /\ PushesInFlight # {} => \A i \in PushesInFlight : i = Len(frames)
    /\ DumpedAfterRun =>
           SinkText = Concat(SelectSeq(Pushed, LAMBDA c : ~observerThrows(onChunk, c)))

\* C12: when dump() is called the queue has drained: every chunk the runtime
\* delivered has been pushed and its push has completed, none is lost, and no
\* push is in flight or still to start.
C12_NoChunkLost ==
    DumpedAfterRun =>
        /\ queue = <<>>
        /\ Len(frames) = Len(delivered)
        /\ \A i \in 1 .. Len(frames) : frames[i].pc = "done"

\* the part of C12 the code does guarantee: dump() is called after every
\* delivered chunk's push has started and settled
C12_DrainBeforeDump ==
    DumpedAfterRun =>
        /\ queue = <<>>
        /\ Len(frames) = Len(delivered)
        /\ PushesInFlight = {}

(* ------------------ claims on cleanup and settlement ------------------- *)

\* C13: once executeBash has settled (normal completion, timeout,
\* cancellation, or the run call throwing) no abort listener of that call is
\* on the token, so every later invocation on the same token starts with none;
\* a call registers at most one.
C13_ListenerRemoved ==
    /\ epc \in {"init", "settled", "rejected"} => ~listener
    /\ listenerAdds <= 1

C13_Witness ==
    /\ epc = "rejected"
    /\ threw
    /\ listenerAdds = 1
    /\ ~aborted
    /\ ~listener

\* the run call of this invocation was made and has neither resolved nor thrown
RunPending == runCalls > 0 /\ report = <<>> /\ ~threw

\* C14: while the run call is pending executeBash stays at its await, not
\* settled and without a result, whether or not the token has fired; a result
\* of a call that made the run call exists only after the runtime's report.
C14_NeverSettlesWhilePending ==
    /\ RunPending => epc = "running" /\ result = <<>> /\ dumpCalls = 0
    /\ (result # <<>> /\ runCalls > 0) => report # <<>>

C14_Witness ==
    /\ RunPending
    /\ aborted
    /\ firedAt = "running"
    /\ interrupts = <<executionId>>
    /\ epc = "running"

\* C15: the run call is made at most once per executeBash call, and when it
\* throws executeBash returns no result and settles only by rejecting.
C15_RuntimeFailurePropagates ==
    /\ runCalls <= 1
    /\ threw =>
        /\ result = <<>>
        /\ dumpCalls = 0
        /\ epc \in {"finally", "rejected"}

C15_Witness ==
    /\ epc = "rejected"
    /\ threw
    /\ runCalls = 1
    /\ result = <<>>

(* -------------------- claims on the chunk observer --------------------- *)

\* C16: an exception of the observer leaves the sink as if the observer had
\* returned normally: once the pushes have settled the sink holds every chunk
\* pushed, the one the observer threw for included.
C16_ObserverThrowKeepsChunk ==
    AllPushesDone => SinkText = Concat(Pushed)

\* C17: an exception of the observer never aborts the executor: executeBash
\* rejects only when the run call threw, every delivered chunk is pushed in
\* delivery order, the ones after a failing push included, and the outcome is
\* the classification of the runtime's report.
C17_ObserverThrowNeverAborts ==
    /\ epc = "rejected" => threw
    /\ \A i \in 1 .. Len(frames) : frames[i].data = sanitizeText(delivered[i])
    /\ DumpedAfterRun =>
        /\ Len(frames) = Len(delivered)
        /\ \A i \in 1 .. Len(frames) :
               frames[i].pc = IF observerThrows(onChunk, frames[i].data)
                              THEN "failed" ELSE "done"
        /\ LET c == classify(report[1], timeout)
           IN  outcome = <<[exitCode |-> c.exitCode, cancelled |-> c.cancelled]>>
    /\ (epc = "settled" /\ report # <<>>) =>
           /\ result # <<>>
           /\ result[1].exitCode = classify(report[1], timeout).exitCode
           /\ result[1].cancelled = classify(report[1], timeout).cancelled

C17_Witness ==
    /\ epc = "settled"
    /\ onChunk = "throwsOnA"
    /\ delivered = << <<"a">>, <<"b">> >>
    /\ frames[1].pc = "failed"
    /\ frames[2].pc = "done"
    /\ report[1] = [exitCode |-> <<7>>, cancelled |-> FALSE, timedOut |-> FALSE]
    /\ result[1].exitCode = <<7>>
    /\ result[1].output = <<"b">>

\* C18 as stated: the observer is called once per push with the raw chunk, so
\* what it has seen when executeBash settles is what the runtime delivered.
C18_ObserverSeesRaw ==
    (epc = "settled" /\ runCalls > 0) => observed = delivered

\* C18, amended: for each push the observer is called exactly once, when the
\* push starts, with the sanitized chunk; nothing is committed to the sink
\* that the observer has not been called with; when executeBash settles the
\* observer has seen every delivered chunk, sanitized, in delivery order.
C18_ObserverSeesSanitized ==
    /\ Len(observed) = Len(frames)
    /\ \A i \in 1 .. Len(frames) :
           observed[i] = frames[i].data /\ observed[i] = sanitizeText(delivered[i])
    /\ Len(SinkText) <= Len(Concat(observed))
    /\ (epc = "settled" /\ runCalls > 0) => observed = DeliveredSanitized

C18_Witness ==
    /\ epc = "settled"
    /\ delivered = << <<"a">>, <<Ctrl, "b">> >>
    /\ observed = << <<"a">>, <<"b">> >>
    /\ onChunk = "ok"
    /\ result[1].output = <<"a", "b">>

(* ---------------- claims on the result and finalization --------------- *)

\* C19: in every result executeBash returns, truncated is true exactly when
\* a spill file was created for the invocation, and the result carries a
\* spill path, that file's, exactly then.
C19_TruncatedIffSpilled ==
    result # <<>> =>
        /\ result[1].truncated <=> sink.file # NoFile
        /\ result[1].fullOutputPath # <<>> <=> sink.file # NoFile
        /\ sink.file # NoFile => result[1].fullOutputPath = <<sink.file[1].path>>
        /\ sink.file # NoFile <=> sink.allocs > 0

C19_Witness ==
    /\ epc = "settled"
    /\ runCalls = 1
    /\ sink.file # NoFile
    /\ result[1].truncated
    /\ result[1].fullOutputPath = <<sink.file[1].path>>

\* C20: dump() is called at most once on an invocation's sink and exactly
\* once when executeBash returns a result; a spill writer that was opened is
\* then ended exactly once, and no write reaches it after its end.
C20_FinalizedOnce ==
    /\ dumpCalls <= 1
    /\ sink.file # NoFile =>
        /\ sink.file[1].ends <= 1
        /\ sink.file[1].lateWrites = 0
        /\ sink.file[1].ended <=> dumpCalls = 1
    /\ result # <<>> =>
        /\ dumpCalls = 1
        /\ sink.file # NoFile => sink.file[1].ended /\ sink.file[1].ends = 1

C20_Witness ==
    /\ epc = "settled"
    /\ runCalls = 1
    /\ Len(frames) = 2
    /\ dumpCalls = 1
    /\ sink.file # NoFile
    /\ sink.file[1].ends = 1
    /\ sink.file[1].lateWrites = 0

(* ------------- what executeBash hands to the runtime ------------------- *)

\* executeBash calls one caller makes in a session
MaxInvocations == 2
\* longest command text
MaxCommandLen == 2

\* the sink and the single-invocation state, unused
SinkIdle ==
    /\ spillThreshold = 0
    /\ onChunk = "none"
    /\ observed = <<>>
    /\ sink = NewSink
    /\ frames = <<>>
    /\ dpc = "none"
    /\ dumpNotice = <<>>
    /\ dumpResult = <<>>
    /\ dumpCalls = 0

\* String.prototype.includes: t occurs in s
includes(s, t) ==
    \E k \in 1 .. Len(s) - Len(t) + 1 : SubSeq(s, k, k + Len(t) - 1) = t

Bash == <<"b", "a", "s", "h">>
Shells == {Bash, <<"z", "s", "h">>, <<"/">> \o Bash}
\* the configured prefix: none, the empty string, a word, a blank
Prefixes == {<<>>, << <<>> >>, << <<"a">> >>, << <<" ">> >>}
Commands == StringsUpTo(MaxCommandLen)
\* options.sessionKey: not given, or a key
SessionKeys == {<<>>, <<"k1">>}
\* what getOrCreateSnapshot resolves with: a path or null
Snapshots == {<<>>, <<"snapshot.sh">>}

\* faulty variant of prefixedCommand: the separating blank is missing
prefixedCommand_noSpace(prefix, command) ==
    IF prefix # <<>> /\ prefix[1] # <<>> THEN prefix[1] \o command ELSE command

\* prefix ? `${prefix} ${command}` : command  (undefined and "" are falsy)
prefixedCommand(prefix, command) ==
    IF prefix # <<>> /\ prefix[1] # <<>>
    THEN prefix[1] \o <<" ">> \o command
    ELSE command

\* faulty variant of sessionEnvOf: the session environment is left out
sessionEnvOf_none(st) == <<>>

\* sessionEnv: shellEnv
sessionEnvOf(st) == <<st.env>>

\* sessionKey: options?.sessionKey ?? "singleton"
sessionKeyOf(key) == IF key = <<>> THEN "singleton" ELSE key[1]

\* shell.includes("bash") ? await getOrCreateSnapshot(shell, shellEnv) : null,
\* then snapshotPath: snapshotPath ?? undefined
snapshotPathOf(shell, snap) == IF includes(shell, Bash) THEN snap ELSE <<>>

\* the ShellExecuteOptions of one executeBash call
shellExecuteOptions(st, command, key, snap) ==
    [command |-> prefixedCommand(st.prefix, command),
     sessionEnv |-> sessionEnvOf(st),
     sessionKey |-> sessionKeyOf(key),
     snapshotPath |-> snapshotPathOf(st.shell, snap)]

\* executeBash(command, {sessionKey}) up to its call of executeShell
Invoke(command, key, snap) ==
    /\ Len(runLog) < MaxInvocations
    /\ runLog' = Append(runLog, [given |-> [command |-> command, sessionKey |-> key,
                                            snapshot |-> snap],
                                 options |-> shellExecuteOptions(settings[1], command,
                                                                 key, snap)])
    /\ UNCHANGED <<sinkVars, execVars, settings, pair, pairInterrupts, rxInput, rxResult, secVars, voiceVars>>

InvokeInit ==
    /\ settings \in {<<[shell |-> sh, env |-> "shellEnv", prefix |-> p]>> :
                        sh \in Shells, p \in Prefixes}
    /\ runLog = <<>>
    /\ SinkIdle
    /\ ExecIdle
    /\ PairIdle
    /\ RegexIdle
    /\ SecretsIdle
    /\ VoiceIdle

InvokeNext ==
    \E command \in Commands, key \in SessionKeys, snap \in Snapshots :
        Invoke(command, key, snap)

SpecInvoke == InvokeInit /\ [][InvokeNext]_vars

\* C21 as stated: the session environment and the snapshot path are supplied
\* only on the first executeBash call that uses a session key; a later call
\* with the same key supplies neither.
C21_SessionDataOnFirstUseOnly ==
    \A i, j \in 1 .. Len(runLog) :
        (i < j /\ runLog[i].options.sessionKey = runLog[j].options.sessionKey) =>
            /\ runLog[j].options.sessionEnv = <<>>
            /\ runLog[j].options.snapshotPath = <<>>

\* C21, amended: every executeBash call passes the session key (or
\* "singleton"), the shell environment as session environment and, for a bash
\* shell, the snapshot path it obtained, whether or not the key was used before.
C21_SessionDataOnEveryCall ==
    \A i \in 1 .. Len(runLog) :
        /\ runLog[i].options.sessionEnv = <<settings[1].env>>
        /\ runLog[i].options.sessionKey \in {"singleton", "k1"}
        /\ runLog[i].given.sessionKey # <<>> =>
               runLog[i].options.sessionKey = runLog[i].given.sessionKey[1]
        /\ runLog[i].given.sessionKey = <<>> => runLog[i].options.sessionKey = "singleton"
        /\ settings[1].shell \in {Bash, <<"/">> \o Bash} =>
               runLog[i].options.snapshotPath = runLog[i].given.snapshot
        /\ settings[1].shell = <<"z", "s", "h">> => runLog[i].options.snapshotPath = <<>>

C21_Witness ==
    /\ Len(runLog) = 2
    /\ runLog[1].options.sessionKey = "k1"
    /\ runLog[2].options.sessionKey = "k1"
    /\ runLog[2].options.sessionEnv = <<"shellEnv">>
    /\ runLog[2].options.snapshotPath = <<"snapshot.sh">>

\* C23: with a non-empty prefix configured the command sent to the runtime is
\* the prefix, one blank, then the command as given; with no prefix or the
\* empty prefix it is the command as given.
C23_CommandPrefix ==
    \A i \in 1 .. Len(runLog) :
        LET sent == runLog[i].options.command
            cmd == runLog[i].given.command
            pre == settings[1].prefix
        IN  IF pre \in {<<>>, << <<>> >>}
            THEN sent = cmd
            ELSE /\ Len(sent) = Len(pre[1]) + 1 + Len(cmd)
                 /\ SubSeq(sent, 1, Len(pre[1])) = pre[1]
                 /\ sent[Len(pre[1]) + 1] = " "
                 /\ SubSeq(sent, Len(pre[1]) + 2, Len(sent)) = cmd

C23_Witness ==
    /\ Len(runLog) = 1
    /\ settings[1].prefix = << <<"a">> >>
    /\ runLog[1].given.command = <<"b", "a">>
    /\ runLog[1].options.command = <<"a", " ", "b", "a">>

(* ------------------ two invocations at the same time ------------------- *)

\* chunks the runtime delivers to each of the two invocations
MaxPairChunks == 2
\* chunks the runtime delivers to the two invocations together
MaxPairTotal == 3
\* the spill threshold both sinks are built with (DEFAULT_MAX_BYTES)
PairThreshold == 1

Invocations == {1, 2}
PairChunks == {<<c>> : c \in Chars}
\* what the runtime reports to either invocation: exit code 0, or cancelled
PairReports == {[exitCode |-> <<0>>, cancelled |-> FALSE, timedOut |-> FALSE],
                [exitCode |-> <<>>, cancelled |-> TRUE, timedOut |-> FALSE]}

\* faulty variant of randomUUID: a module-level id instead of one per call
randomUUID_fixed(issued) == 1

\* crypto.randomUUID(): an id no earlier call got
randomUUID(issued) == Cardinality(issued) + 1

\* the ids issued so far
IssuedIds == {pair[i].id[1] : i \in {k \in Invocations : pair[k].id # <<>>}}

\* the locals of one executeBash call before its first statement; frame is
\* the sink.push the chain is in, dpc and dumped the state of its sink.dump
NewInvocation(key) ==
    [pc |-> "init", id |-> <<>>, sessionKey |-> sessionKeyOf(key), sink |-> NewSink,
     queue |-> <<>>, frame |-> <<>>, delivered |-> <<>>, aborted |-> FALSE,
     listener |-> FALSE, outcome |-> <<>>, dpc |-> "none", dumped |-> <<>>,
     result |-> <<>>]

\* sink.dump(notice) of one invocation from its call to its await (with a
\* file) or to its return (without): the same segments as DumpCall
pairDumpCall(inv, notice) ==
    IF inv.sink.file # NoFile
    THEN [inv EXCEPT !.sink = sinkEnd(@), !.dpc = "ending"]
    ELSE [inv EXCEPT !.dpc = "done", !.dumped = <<dumpOutput(inv.sink, notice)>>]

\* invocation i from its start to `await executeShell(...)`, or, when its
\* token has already fired, to the `await sink.dump("Command cancelled")` of
\* its short-circuit return
PairStart(i) ==
    /\ pair[i].pc = "init"
    /\ LET id == randomUUID(IssuedIds)
           c == [exitCode |-> <<>>, cancelled |-> TRUE, notice |-> CancelNotice]
       IN  IF shortCircuit(TRUE, pair[i].aborted)
           THEN pair' = [pair EXCEPT
                    ![i] = [pairDumpCall(pair[i], c.notice) EXCEPT
                               !.id = <<id>>, !.outcome = <<c>>, !.pc = "shortDump"]]
           ELSE pair' = [pair EXCEPT ![i].id = <<id>>, ![i].listener = TRUE,
                                     ![i].pc = "running"]
    /\ UNCHANGED <<sinkVars, execVars, settings, runLog, pairInterrupts, rxInput, rxResult, secVars, voiceVars>>

\* the short-circuit return of invocation i: no try block, so no finally
PairShortReturn(i) ==
    /\ pair[i].pc = "shortDump"
    /\ pair[i].dpc = "done"
    /\ pair' = [pair EXCEPT
           ![i].pc = "settled",
           ![i].result = <<bashResult(pair[i].outcome[1], pair[i].dumped[1])>>]
    /\ UNCHANGED <<sinkVars, execVars, settings, runLog, pairInterrupts, rxInput, rxResult, secVars, voiceVars>>

\* the runtime calls the enqueueChunk of invocation i
PairChunk(i, chunk) ==
    /\ pair[i].pc = "running"
    /\ Len(pair[i].delivered) < MaxPairChunks
    /\ Len(pair[1].delivered) + Len(pair[2].delivered) < MaxPairTotal
    /\ pair' = [pair EXCEPT ![i].queue = Append(@, chunk),
                            ![i].delivered = Append(@, chunk)]
    /\ UNCHANGED <<sinkVars, execVars, settings, runLog, pairInterrupts, rxInput, rxResult, secVars, voiceVars>>

\* the chain of invocation i starts the push of its next chunk, the push
\* before it having settled: sink.push up to its first await
PairPush(i) ==
    /\ pair[i].queue # <<>>
    /\ pair[i].frame = <<>>
    /\ LET r == pushSanitizedCall(pair[i].sink, PairThreshold,
                                  sanitizeText(Head(pair[i].queue)))
       IN  pair' = [pair EXCEPT ![i].sink = r.sink,
                                ![i].frame = <<r.frame>>,
                                ![i].queue = Tail(@)]
    /\ UNCHANGED <<sinkVars, execVars, settings, runLog, pairInterrupts, rxInput, rxResult, secVars, voiceVars>>

\* the push of invocation i resumes after `await this.#fileSink()`
PairPushAppend(i) ==
    /\ pair[i].frame # <<>>
    /\ pair[i].frame[1].pc = "fileSink"
    /\ pair' = [pair EXCEPT ![i].sink = pushSanitizedAppend(@, pair[i].frame[1]),
                            ![i].frame[1].pc = "write"]
    /\ UNCHANGED <<sinkVars, execVars, settings, runLog, pairInterrupts, rxInput, rxResult, secVars, voiceVars>>

\* the push of invocation i resumes after `await sink?.write(data)` and returns
PairPushTrim(i) ==
    /\ pair[i].frame # <<>>
    /\ pair[i].frame[1].pc = "write"
    /\ pair' = [pair EXCEPT
           ![i].sink = pushSanitizedTrim(@, PairThreshold, pair[i].frame[1]),
           ![i].frame = <<>>]
    /\ UNCHANGED <<sinkVars, execVars, settings, runLog, pairInterrupts, rxInput, rxResult, secVars, voiceVars>>

\* the token of invocation i fires at any moment before the call has
\* settled: its once-listener, if registered, runs
PairFire(i) ==
    /\ ~pair[i].aborted
    /\ pair[i].pc # "settled"
    /\ pair' = [pair EXCEPT ![i].aborted = TRUE, ![i].listener = FALSE]
    /\ pairInterrupts' = IF pair[i].listener
                         THEN Append(pairInterrupts, [token |-> i, id |-> pair[i].id[1]])
                         ELSE pairInterrupts
    /\ UNCHANGED <<sinkVars, execVars, settings, runLog, rxInput, rxResult, secVars, voiceVars>>

\* the executeShell call of invocation i resolves
PairResolve(i, rep) ==
    /\ pair[i].pc = "running"
    /\ pair' = [pair EXCEPT ![i].pc = "drain", ![i].outcome = <<classify(rep, <<>>)>>]
    /\ UNCHANGED <<sinkVars, execVars, settings, runLog, pairInterrupts, rxInput, rxResult, secVars, voiceVars>>

\* invocation i after `await pendingChunks`: the return statement chosen, up
\* to its `await sink.dump(...)`
PairClassify(i) ==
    /\ pair[i].pc = "drain"
    /\ pair[i].queue = <<>>
    /\ pair[i].frame = <<>>
    /\ pair' = [pair EXCEPT
           ![i] = [pairDumpCall(pair[i], pair[i].outcome[1].notice) EXCEPT !.pc = "dump"]]
    /\ UNCHANGED <<sinkVars, execVars, settings, runLog, pairInterrupts, rxInput, rxResult, secVars, voiceVars>>

\* the dump() of invocation i resumes after `await this.#file.sink.end()`
PairDumpReturn(i) ==
    /\ pair[i].pc \in {"dump", "shortDump"}
    /\ pair[i].dpc = "ending"
    /\ pair' = [pair EXCEPT
           ![i].dpc = "done",
           ![i].dumped = <<dumpOutput(pair[i].sink, pair[i].outcome[1].notice)>>]
    /\ UNCHANGED <<sinkVars, execVars, settings, runLog, pairInterrupts, rxInput, rxResult, secVars, voiceVars>>

\* the return value of invocation i is built; the finally block is entered
PairReturn(i) ==
    /\ pair[i].pc = "dump"
    /\ pair[i].dpc = "done"
    /\ pair' = [pair EXCEPT
           ![i].pc = "finally",
           ![i].result = <<bashResult(pair[i].outcome[1], pair[i].dumped[1])>>]
    /\ UNCHANGED <<sinkVars, execVars, settings, runLog, pairInterrupts, rxInput, rxResult, secVars, voiceVars>>

\* finally { await pendingChunks; removeEventListener }: invocation i settles
PairSettle(i) ==
    /\ pair[i].pc = "finally"
    /\ pair[i].queue = <<>>
    /\ pair[i].frame = <<>>
    /\ pair' = [pair EXCEPT ![i].listener = removeEventListener(@),
                            ![i].pc = "settled"]
    /\ UNCHANGED <<sinkVars, execVars, settings, runLog, pairInterrupts, rxInput, rxResult, secVars, voiceVars>>

PairInit ==
    /\ pair \in {[i \in Invocations |-> NewInvocation(IF i = 1 THEN k1 ELSE k2)] :
                    k1 \in SessionKeys, k2 \in SessionKeys}
    /\ pairInterrupts = <<>>
    /\ SinkIdle
    /\ ExecIdle
    /\ InvokeIdle
    /\ RegexIdle
    /\ SecretsIdle
    /\ VoiceIdle

PairNext ==
    \E i \in Invocations :
        \/ PairStart(i)
        \/ PairShortReturn(i)
        \/ \E chunk \in PairChunks : PairChunk(i, chunk)
        \/ PairPush(i)
        \/ PairPushAppend(i)
        \/ PairPushTrim(i)
        \/ PairFire(i)
        \/ \E rep \in PairReports : PairResolve(i, rep)
        \/ PairClassify(i)
        \/ PairDumpReturn(i)
        \/ PairReturn(i)
        \/ PairSettle(i)

SpecPair == PairInit /\ [][PairNext]_vars

\* the text the sink of invocation i has reconstructed
PairText(i) ==
    IF pair[i].sink.file # NoFile THEN pair[i].sink.file[1].content
    ELSE pair[i].sink.buffer

\* the chunk of a push of invocation i that has not reached its sink yet
PairInFlight(i) ==
    IF pair[i].frame # <<>> /\ pair[i].frame[1].pc = "fileSink"
    THEN pair[i].frame[1].data
    ELSE <<>>

\* the chunks delivered to invocation i, sanitized and concatenated
PairDelivered(i) ==
    Concat([k \in 1 .. Len(pair[i].delivered) |-> sanitizeText(pair[i].delivered[k])])

\* C22: two invocations running at the same time have different execution
\* ids; each one's sink and queue hold exactly the chunks delivered to that
\* invocation, and its result's output is a tail of them; firing the token of
\* one invocation requests the interrupt for that invocation's id and never
\* for the other's.
C22_InvocationsIsolated ==
    /\ (pair[1].id # <<>> /\ pair[2].id # <<>>) => pair[1].id # pair[2].id
    /\ \A i \in Invocations :
        /\ PairText(i) \o PairInFlight(i) \o Concat(pair[i].queue) = PairDelivered(i)
        /\ (pair[i].result # <<>> /\ pair[i].delivered # <<>>) =>
            /\ PairText(i) = PairDelivered(i)
            /\ LET out == pair[i].result[1].output
                   buf == pair[i].sink.buffer
               IN  /\ Len(buf) <= Len(out)
                   /\ SubSeq(out, Len(out) - Len(buf) + 1, Len(out)) = buf
                   /\ buf = LastChars(PairDelivered(i), Len(buf))
    /\ \A k \in 1 .. Len(pairInterrupts) :
        LET t == pairInterrupts[k].token
        IN  /\ pair[t].id = <<pairInterrupts[k].id>>
            /\ \A o \in Invocations \ {t} : pair[o].id # <<pairInterrupts[k].id>>

C22_Witness ==
    /\ pair[1].pc = "settled"
    /\ pair[2].pc = "settled"
    /\ pair[1].sessionKey = pair[2].sessionKey
    /\ pair[1].delivered = << <<"a">>, <<"a">> >>
    /\ pair[2].delivered = << <<"b">> >>
    /\ Len(pairInterrupts) = 1
    /\ pairInterrupts[1].token = 1
    /\ pair[1].result[1].cancelled
    /\ ~pair[2].result[1].cancelled
    /\ pair[2].result[1].output = <<"b">>

(* ------------------------- compileSecretRegex -------------------------- *)
(* packages/coding-agent/src/secrets/regex.ts.  A RegExp is the pattern    *)
(* source and the flags string the constructor was given; the constructor  *)
(* throws a SyntaxError for a pattern or a flags string it does not        *)
(* accept.  Patterns are judged as JavaScript judges them without the u    *)
(* and v flags, which no entry of the model carries.                       *)

\* longest content string of a regex entry
MaxContentLen == 4

ContentChars == {"a", "/", "\\", "(", "i", "g", " "}

RECURSIVE ContentsUpTo(_)
ContentsUpTo(n) ==
    IF n = 0 THEN {<<>>}
    ELSE LET shorter == ContentsUpTo(n - 1)
         IN  shorter \cup {Append(t, c) : t \in {u \in shorter : Len(u) = n - 1},
                                          c \in ContentChars}

Contents == ContentsUpTo(MaxContentLen)
\* the flags field: absent, or a string
FlagFields == {<<>>, << <<>> >>, << <<"i">> >>, << <<"g">> >>, << <<"g", "i">> >>,
               << <<"i", "i">> >>, << <<"x">> >>, << <<"d">> >>}

\* the flag letters the RegExp constructor knows
RegExpFlags == {"d", "g", "i", "m", "s", "u", "v", "y"}

\* s holds c
hasChar(s, c) == \E k \in 1 .. Len(s) : s[k] = c

\* the pattern source parses: every "(" is escaped (the model's patterns hold
\* no ")"), and the source does not end in a lone backslash
RECURSIVE validPattern(_)
validPattern(src) ==
    IF src = <<>> THEN TRUE
    ELSE IF src[1] = "\\" THEN Len(src) >= 2 /\ validPattern(SubSeq(src, 3, Len(src)))
    ELSE IF src[1] = "(" THEN FALSE
    ELSE validPattern(Tail(src))

\* the flags string is accepted: known letters, none twice, not both u and v
validFlags(f) ==
    /\ \A k \in 1 .. Len(f) : f[k] \in RegExpFlags
    /\ \A j, k \in 1 .. Len(f) : f[j] = f[k] => j = k
    /\ ~(hasChar(f, "u") /\ hasChar(f, "v"))

\* faulty variant of newRegExp: a pattern that does not compile is dropped
newRegExp_lenient(src, f) ==
    IF validPattern(src) /\ validFlags(f)
    THEN [ok |-> TRUE, source |-> src, flags |-> f]
    ELSE [ok |-> TRUE, source |-> <<>>, flags |-> <<"g">>]

\* new RegExp(src, f): the matcher, or the SyntaxError thrown
newRegExp(src, f) ==
    IF validPattern(src) /\ validFlags(f)
    THEN [ok |-> TRUE, source |-> src, flags |-> f]
    ELSE [ok |-> FALSE, source |-> <<>>, flags |-> <<>>]

\* faulty variant of enforceGlobalFlag: the flags are passed on as they are
enforceGlobalFlag_asGiven(f) == f

\* flags.includes("g") ? flags : `${flags}g`
enforceGlobalFlag(f) == IF hasChar(f, "g") THEN f ELSE f \o <<"g">>

\* [...new Set(chars)].join(""): first occurrences, in order
RECURSIVE dedupe(_)
dedupe(f) ==
    IF f = <<>> THEN <<>>
    ELSE LET front == SubSeq(f, 1, Len(f) - 1)
             rest == dedupe(front)
         IN  IF hasChar(front, f[Len(f)]) THEN rest ELSE Append(rest, f[Len(f)])

\* faulty variant of mergeFlags: the literal's flags replace the explicit ones
mergeFlags_embeddedOnly(explicit, embedded) == dedupe(embedded)

\* new Set([...resolvedFlags, ...literalMatch[2]]), joined
mergeFlags(explicit, embedded) == dedupe(explicit \o embedded)

\* the characters the detection accepts after the closing slash: [ gimsuy]
LiteralFlagChars == {" ", "g", "i", "m", "s", "u", "y"}

\* (?:[^\\/]|\\.)* matches all of b
RECURSIVE literalBody(_)
literalBody(b) ==
    IF b = <<>> THEN TRUE
    ELSE IF b[1] = "\\"
         THEN Len(b) >= 2 /\ b[2] # "\n" /\ literalBody(SubSeq(b, 3, Len(b)))
    ELSE IF b[1] = "/" THEN FALSE
    ELSE literalBody(Tail(b))

\* the closing slashes /^\/((?:[^\\/]|\\.)*)\/([ gimsuy]*)$/ can match with:
\* at most one, the last slash of the string
closingSlashes(content) ==
    {k \in 2 .. Len(content) :
        /\ content[k] = "/"
        /\ \A j \in k + 1 .. Len(content) : content[j] \in LiteralFlagChars
        /\ literalBody(SubSeq(content, 2, k - 1))}

\* literalMatch: no match, or the groups [1] (pattern) and [2] (flags)
literalMatch(content) ==
    IF content # <<>> /\ content[1] = "/" /\ closingSlashes(content) # {}
    THEN LET k == CHOOSE j \in closingSlashes(content) : TRUE
         IN  <<[pattern |-> SubSeq(content, 2, k - 1),
                flags |-> SubSeq(content, k + 1, Len(content))]>>
    ELSE <<>>

\* compileSecretRegex(pattern, flags)
compileSecretRegex(content, flagsField) ==
    LET given == IF flagsField = <<>> THEN <<>> ELSE flagsField[1]
        lit == literalMatch(content)
        resolvedPattern == IF lit # <<>> THEN lit[1].pattern ELSE content
        resolvedFlags == IF lit # <<>> THEN mergeFlags(given, lit[1].flags) ELSE given
    IN  newRegExp(resolvedPattern, enforceGlobalFlag(resolvedFlags))

\* the entry is compiled
CompileRegex ==
    /\ rxInput # <<>>
    /\ rxResult = <<>>
    /\ rxResult' = <<compileSecretRegex(rxInput[1].content, rxInput[1].flags)>>
    /\ UNCHANGED <<sinkVars, execVars, settings, runLog, pair, pairInterrupts, rxInput, secVars, voiceVars>>

RegexInit ==
    /\ rxInput \in {<<[content |-> c, flags |-> f]>> : c \in Contents, f \in FlagFields}
    /\ rxResult = <<>>
    /\ SinkIdle
    /\ ExecIdle
    /\ InvokeIdle
    /\ PairIdle
    /\ SecretsIdle
    /\ VoiceIdle

RegexNext == CompileRegex

SpecRegex == RegexInit /\ [][RegexNext]_vars

\* the characters of a string, as a set
CharsOf(f) == {f[k] : k \in 1 .. Len(f)}

\* occurrences of c in f
Count(f, c) == Cardinality({k \in 1 .. Len(f) : f[k] = c})

\* the flags field of the entry, "" when absent
GivenFlags == IF rxInput[1].flags = <<>> THEN <<>> ELSE rxInput[1].flags[1]

\* the entry is written as /pattern/flags with flag letters only
LiteralForm ==
    /\ literalMatch(rxInput[1].content) # <<>>
    /\ CharsOf(literalMatch(rxInput[1].content)[1].flags) \subseteq
           {"g", "i", "m", "s", "u", "y"}

EmbeddedPattern == literalMatch(rxInput[1].content)[1].pattern
EmbeddedFlags == literalMatch(rxInput[1].content)[1].flags

\* every flag the entry supplies, in its field or in its literal
SuppliedFlags ==
    CharsOf(GivenFlags) \cup
        (IF literalMatch(rxInput[1].content) # <<>>
         THEN CharsOf(literalMatch(rxInput[1].content)[1].flags) ELSE {})

Compiled == rxResult # <<>> /\ rxResult[1].ok

\* C24: every matcher compileSecretRegex returns has the g flag, once, and
\* every flag the entry supplied; an entry with a valid plain pattern and
\* valid flags does get a matcher.
C24_GlobalFlagOnce ==
    /\ Compiled =>
        /\ Count(rxResult[1].flags, "g") = 1
        /\ SuppliedFlags \subseteq CharsOf(rxResult[1].flags)
    /\ (rxResult # <<>> /\ literalMatch(rxInput[1].content) = <<>>
           /\ validPattern(rxInput[1].content) /\ validFlags(GivenFlags)) => Compiled

C24_Witness ==
    /\ Compiled
    /\ rxInput[1].content = <<"/", "a", "/", "g">>
    /\ rxInput[1].flags = << <<"g", "i">> >>
    /\ rxResult[1].flags = <<"g", "i">>

\* C25: for an entry written /pattern/flags the matcher's source is the
\* embedded pattern and its flags are, without repetition, the embedded
\* flags, the flags of the flags field and g; such an entry compiles when
\* its pattern and every one of its flag letters is valid.
C25_LiteralForm ==
    (rxResult # <<>> /\ LiteralForm) =>
        /\ Compiled =>
            /\ rxResult[1].source = EmbeddedPattern
            /\ CharsOf(rxResult[1].flags) =
                   CharsOf(EmbeddedFlags) \cup CharsOf(GivenFlags) \cup {"g"}
            /\ \A c \in CharsOf(rxResult[1].flags) : Count(rxResult[1].flags, c) = 1
        /\ (validPattern(EmbeddedPattern) /\ SuppliedFlags \subseteq RegExpFlags) => Compiled
        /\ (validPattern(EmbeddedPattern) /\ EmbeddedFlags = <<"i">> /\ GivenFlags = <<>>) =>
               /\ Compiled
               /\ CharsOf(rxResult[1].flags) = {"i", "g"}

C25_Witness ==
    /\ Compiled
    /\ rxInput[1].content = <<"/", "a", "/", "i">>
    /\ rxInput[1].flags = <<>>
    /\ rxResult[1].source = <<"a">>
    /\ rxResult[1].flags = <<"i", "g">>

\* the pattern the entry asks for: the embedded one, or the whole content
AskedPattern ==
    IF literalMatch(rxInput[1].content) # <<>>
    THEN literalMatch(rxInput[1].content)[1].pattern
    ELSE rxInput[1].content

\* the entry cannot be compiled: its pattern does not parse, one of its flag
\* letters is unknown, or its flags field repeats a letter
EntryInvalid ==
    \/ ~validPattern(AskedPattern)
    \/ ~(SuppliedFlags \subseteq RegExpFlags)
    \/ literalMatch(rxInput[1].content) = <<>> /\ ~validFlags(GivenFlags)

\* C26: for an entry that cannot be compiled compileSecretRegex throws; it
\* returns no matcher for it, neither a stand-in nor one for another pattern.
C26_InvalidEntryThrows ==
    rxResult # <<>> =>
        /\ EntryInvalid => ~rxResult[1].ok
        /\ rxResult[1].ok => rxResult[1].source = AskedPattern

C26_Witness ==
    /\ rxResult # <<>>
    /\ rxInput[1].content = <<"/", "(", "/", "i">>
    /\ ~rxResult[1].ok

\* ---------------------------------------------------------------------
\* The secret redactor: compile, redact, restore.
\*
\* The redactor's implementation is not part of the sources at hand; only
\* its user documentation (docs/secrets.md) is.  The definitions of this
\* section follow the specification's sections 3 and 4.3: entries are
\* merged (environment first, then file entries, a file entry replacing an
\* entry with the same content), obfuscate entries are numbered in merge
\* order, redact replaces every occurrence of every entry's content, one
\* entry after the other in compilation order, and restore walks a
\* structured value and expands the placeholder tokens of its strings.
\* Texts are sequences of characters, so that a token is eleven or more
\* characters which a text may also hold literally, in whole or in part.
\* Only plain entries are modelled; secret contents are drawn from letters
\* that do not occur in the placeholder syntax.
\* ---------------------------------------------------------------------

MaxFragments == 3

TokenOpen == <<"<", "<", "$", "e", "n", "v", ":", "S">>
TokenClose == <<">", ">">>
DigitChars == {"0", "1", "2", "3", "4", "5", "6", "7", "8", "9"}

digitChar(d) == ToString(d)

digitValue(c) == CHOOSE d \in 0..9 : digitChar(d) = c

RECURSIVE decimal(_)
decimal(n) ==
    IF n < 10 THEN <<digitChar(n)>>
    ELSE decimal(n \div 10) \o <<digitChar(n % 10)>>

RECURSIVE parseDecimal(_)
parseDecimal(ds) ==
    IF ds = <<>> THEN 0
    ELSE 10 * parseDecimal(SubSeq(ds, 1, Len(ds) - 1)) + digitValue(ds[Len(ds)])

placeholderToken_noIndex(n) == TokenOpen \o <<"0">> \o TokenClose

placeholderToken(n) == TokenOpen \o decimal(n) \o TokenClose

startsWith(s, t) ==
    /\ Len(t) <= Len(s)
    /\ SubSeq(s, 1, Len(t)) = t

drop(s, k) == SubSeq(s, k + 1, Len(s))

RECURSIVE digitRun(_)
digitRun(s) ==
    IF s # <<>> /\ s[1] \in DigitChars THEN <<s[1]>> \o digitRun(Tail(s))
    ELSE <<>>

\* The token at the head of s, as <<index, length>>, or <<>> when s does
\* not begin with one.  The index is a decimal numeral without leading
\* zeros.
tokenAtHead(s) ==
    IF ~startsWith(s, TokenOpen) THEN <<>>
    ELSE LET ds == digitRun(drop(s, Len(TokenOpen)))
             rest == drop(s, Len(TokenOpen) + Len(ds))
         IN  IF /\ ds # <<>>
                /\ (Len(ds) > 1 => ds[1] # "0")
                /\ startsWith(rest, TokenClose)
             THEN <<parseDecimal(ds), Len(TokenOpen) + Len(ds) + Len(TokenClose)>>
             ELSE <<>>

\* ---- entries and compilation ----

\* the secrets a session knows: two that overlap ("b" lies inside "ab") and
\* one, "a", that shares nothing with "b"
SecretContents == {<<"a", "b">>, <<"b">>, <<"a">>}
\* the secrets the environment and both files may list
SharedContents == {<<"a", "b">>, <<"b">>}
Modes == {"obfuscate", "replace"}

Entry(content, mode, origin) ==
    [content |-> content, mode |-> mode, replacement |-> <<>>, origin |-> origin]

EnvLists == {<<>>} \cup {<<Entry(c, "obfuscate", "env")>> : c \in SharedContents}

\* the `replacement` field of a replace-mode entry
CustomReplacement == <<"#">>

EntryReplacedBy(content, replacement, origin) ==
    [content |-> content, mode |-> "replace", replacement |-> <<replacement>>,
     origin |-> origin]

\* a secrets.yml holds no entry or one; the project file may give its
\* replace-mode entry a replacement of its own, and may list the secret "a",
\* in replace mode
FileLists(origin) ==
    {<<>>} \cup {<<Entry(c, m, origin)>> : c \in SharedContents, m \in Modes}
        \cup (IF origin = "project"
               THEN {<<EntryReplacedBy(c, CustomReplacement, origin)>> : c \in SharedContents}
                        \cup {<<Entry(<<"a">>, "replace", origin)>>}
               ELSE {})

contentsOf(entries) == {entries[k].content : k \in DOMAIN entries}

without(entries, contents) ==
    SelectSeq(entries, LAMBDA e : e.content \notin contents)

mergeEntries_keepAll(env, global, project) == env \o global \o project

mask_single(content) == <<"*">>

mergeEntries_fileFirst(env, global, project) ==
    without(global, contentsOf(project)) \o project
        \o without(env, contentsOf(global) \cup contentsOf(project))

mergeEntries(env, global, project) ==
    LET file == without(global, contentsOf(project)) \o project
    IN  without(env, contentsOf(file)) \o file

obfuscatedBefore(entries, k) ==
    Cardinality({j \in 1..(k - 1) : entries[j].mode = "obfuscate"})

placeholderIndex_shared(entries, k) == 0

placeholderIndex(entries, k) == obfuscatedBefore(entries, k)

compile(env, global, project) ==
    LET merged == mergeEntries(env, global, project)
    IN  [k \in DOMAIN merged |->
            [content |-> merged[k].content,
             mode |-> merged[k].mode,
             replacement |-> merged[k].replacement,
             origin |-> merged[k].origin,
             index |-> IF merged[k].mode = "obfuscate"
                       THEN <<placeholderIndex(merged, k)>>
                       ELSE <<>>]]

\* ---- redact ----

MaskChar == "*"

mask(content) == [k \in 1..Len(content) |-> MaskChar]

substitute(m) ==
    IF m.mode = "obfuscate" THEN placeholderToken(m.index[1])
    ELSE IF m.replacement # <<>> THEN m.replacement[1]
    ELSE mask(m.content)

RECURSIVE replaceRest(_, _, _)
replaceRest(s, t, r) ==
    IF s = <<>> THEN <<>>
    ELSE IF startsWith(s, t) THEN r \o replaceRest(drop(s, Len(t)), t, r)
    ELSE <<s[1]>> \o replaceRest(Tail(s), t, r)

RECURSIVE replaceFirst(_, _, _)
replaceFirst(s, t, r) ==
    IF s = <<>> THEN <<>>
    ELSE IF startsWith(s, t) THEN r \o drop(s, Len(t))
    ELSE <<s[1]>> \o replaceFirst(Tail(s), t, r)

replaceAll(s, t, r) == replaceRest(s, t, r)

RECURSIVE redactFrom(_, _, _)
redactFrom(text, ms, k) ==
    IF k > Len(ms) THEN text
    ELSE redactFrom(replaceAll(text, ms[k].content, substitute(ms[k])), ms, k + 1)

redact(text, ms) == redactFrom(text, ms, 1)

\* ---- restore ----

contentOfIndex(ms, n) ==
    LET hits == SelectSeq(ms, LAMBDA m : m.index = <<n>>)
    IN  IF hits = <<>> THEN <<>> ELSE <<hits[1].content>>

RECURSIVE restoreText(_, _)
restoreText(s, ms) ==
    IF s = <<>> THEN <<>>
    ELSE LET tok == tokenAtHead(s)
         IN  IF tok # <<>> /\ contentOfIndex(ms, tok[1]) # <<>>
             THEN contentOfIndex(ms, tok[1])[1] \o restoreText(drop(s, tok[2]), ms)
             ELSE <<s[1]>> \o restoreText(Tail(s), ms)

\* ---- structured values ----

Str(s) == [t |-> "string", v |-> s]
Leaf(v) == [t |-> "leaf", v |-> v]
List(vs) == [t |-> "sequence", v |-> vs]
Mapping(f) == [t |-> "mapping", v |-> f]

restoreLeaf_asString(x) == Str(<<>>)

restoreLeaf(x) == x

RECURSIVE restore(_, _)
restore(x, ms) ==
    CASE x.t = "string" -> Str(restoreText(x.v, ms))
      [] x.t = "leaf" -> restoreLeaf(x)
      [] x.t = "sequence" -> List([k \in DOMAIN x.v |-> restore(x.v[k], ms)])
      [] x.t = "mapping" -> Mapping([k \in DOMAIN x.v |-> restore(x.v[k], ms)])

RECURSIVE redactValue(_, _)
redactValue(x, ms) ==
    CASE x.t = "string" -> Str(redact(x.v, ms))
      [] x.t = "leaf" -> x
      [] x.t = "sequence" -> List([k \in DOMAIN x.v |-> redactValue(x.v[k], ms)])
      [] x.t = "mapping" -> Mapping([k \in DOMAIN x.v |-> redactValue(x.v[k], ms)])

\* ---- the values and texts the redactor is driven with ----

Fragments == {<<"a">>, <<"b">>, TokenOpen, <<"0">>, TokenClose}

RECURSIVE flatten(_)
flatten(fs) == IF fs = <<>> THEN <<>> ELSE fs[1] \o flatten(Tail(fs))

FragmentLists == UNION {[1..n -> Fragments] : n \in 0..MaxFragments}

Texts == {flatten(fs) : fs \in FragmentLists}

Shapes == 1..3

Shape(k, s) ==
    CASE k = 1 -> Str(s)
      [] k = 2 -> List(<<Str(s), Leaf(7), Str(<<"a", "b">>)>>)
      [] k = 3 -> Mapping([key \in {"arg", "n"} |->
                     IF key = "n" THEN Leaf(TRUE)
                     ELSE List(<<Mapping([inner \in {"k"} |-> Str(s)]), Leaf(7)>>)])

\* ---- the session ----

Compile ==
    /\ matcherSet = <<>>
    /\ matcherSet' = <<compile(secConfig.env, secConfig.global, secConfig.project)>>
    /\ UNCHANGED <<secConfig, secValue, secRedacted, secRestored, secDirect>>
    /\ UNCHANGED <<sinkVars, execVars, settings, runLog, pair, pairInterrupts, rxInput, rxResult, voiceVars>>

Redact ==
    /\ matcherSet # <<>>
    /\ secRedacted = <<>>
    /\ secRedacted' = <<redactValue(secValue, matcherSet[1])>>
    /\ UNCHANGED <<secConfig, matcherSet, secValue, secRestored, secDirect>>
    /\ UNCHANGED <<sinkVars, execVars, settings, runLog, pair, pairInterrupts, rxInput, rxResult, voiceVars>>

Restore ==
    /\ secRedacted # <<>>
    /\ secRestored = <<>>
    /\ secRestored' = <<restore(secRedacted[1], matcherSet[1])>>
    /\ UNCHANGED <<secConfig, matcherSet, secValue, secRedacted, secDirect>>
    /\ UNCHANGED <<sinkVars, execVars, settings, runLog, pair, pairInterrupts, rxInput, rxResult, voiceVars>>

RestoreDirect ==
    /\ matcherSet # <<>>
    /\ secDirect = <<>>
    /\ secDirect' = <<restore(secValue, matcherSet[1])>>
    /\ UNCHANGED <<secConfig, matcherSet, secValue, secRedacted, secRestored>>
    /\ UNCHANGED <<sinkVars, execVars, settings, runLog, pair, pairInterrupts, rxInput, rxResult, voiceVars>>

SecretsInit ==
    /\ \E env \in EnvLists, global \in FileLists("global"), project \in FileLists("project") :
           secConfig = [env |-> env, global |-> global, project |-> project]
    /\ \E k \in Shapes, s \in Texts : secValue = Shape(k, s)
    /\ matcherSet = <<>>
    /\ secRedacted = <<>>
    /\ secRestored = <<>>
    /\ secDirect = <<>>
    /\ SinkIdle
    /\ ExecIdle
    /\ InvokeIdle
    /\ PairIdle
    /\ RegexIdle
    /\ VoiceIdle

SecretsNext ==
    \/ Compile
    \/ Redact
    \/ Restore
    \/ RestoreDirect

SpecSecrets == SecretsInit /\ [][SecretsNext]_vars

\* ---- what the claims speak of ----

Compiled_ms == matcherSet[1]

AllObfuscate(ms) == \A k \in DOMAIN ms : ms[k].mode = "obfuscate"

HasTokenText(s) == \E k \in 1..Len(s) : tokenAtHead(drop(s, k - 1)) # <<>>

RECURSIVE StringsOf(_)
StringsOf(x) ==
    CASE x.t = "string" -> {x.v}
      [] x.t = "leaf" -> {}
      [] OTHER -> UNION {StringsOf(x.v[k]) : k \in DOMAIN x.v}

NoPlaceholderText(x) == \A s \in StringsOf(x) : ~HasTokenText(s)

RECURSIVE Skeleton(_)
Skeleton(x) ==
    CASE x.t = "string" -> Str(<<>>)
      [] x.t = "leaf" -> x
      [] x.t = "sequence" -> List([k \in DOMAIN x.v |-> Skeleton(x.v[k])])
      [] x.t = "mapping" -> Mapping([k \in DOMAIN x.v |-> Skeleton(x.v[k])])

RECURSIVE Occurrences(_, _)
Occurrences(s, t) ==
    IF Len(s) < Len(t) THEN 0
    ELSE IF startsWith(s, t) THEN 1 + Occurrences(drop(s, Len(t)), t)
    ELSE Occurrences(Tail(s), t)

Token0 == <<"<", "<", "$", "e", "n", "v", ":", "S", "0", ">", ">">>
Token1 == <<"<", "<", "$", "e", "n", "v", ":", "S", "1", ">", ">">>

\* The first string of a value, in the order of the shapes above.
RECURSIVE FirstString(_)
FirstString(x) ==
    CASE x.t = "string" -> x.v
      [] x.t = "leaf" -> <<>>
      [] x.t = "sequence" -> FirstString(x.v[1])
      [] x.t = "mapping" ->
             FirstString(x.v[IF "arg" \in DOMAIN x.v THEN "arg" ELSE "k"])

\* C27: restore(redact(x)) = x for every structured value x, when every
\* configured secret is obfuscate-mode and no string of x holds text that
\* reads as a placeholder token.
C27_RoundTrip ==
    (/\ secRestored # <<>>
     /\ AllObfuscate(Compiled_ms)
     /\ NoPlaceholderText(secValue))
        => secRestored[1] = secValue

C27_Witness ==
    /\ secRestored # <<>>
    /\ Len(Compiled_ms) = 2
    /\ AllObfuscate(Compiled_ms)
    /\ secValue.t = "mapping"
    /\ "n" \in DOMAIN secValue.v
    /\ FirstString(secValue) = <<"b", "a", "b">>
    /\ FirstString(secRedacted[1]) \in {<<"b">> \o Token0, Token0 \o Token1, Token1 \o Token0}
    /\ secRestored[1] = secValue

\* C28: redact replaces every occurrence of every configured secret: no
\* string of the redacted value holds the content of an obfuscate-mode
\* plain entry, the entry that is scanned first has one token in the result
\* for each of its occurrences in the text, and a text "aab" with the
\* secret "ab" at index 0 becomes "a<<$env:S0>>".
C28_EveryOccurrence ==
    secRedacted # <<>> =>
        /\ \A k \in DOMAIN Compiled_ms :
               Compiled_ms[k].mode = "obfuscate" =>
                   \A s \in StringsOf(secRedacted[1]) : ~includes(s, Compiled_ms[k].content)
        /\ (/\ Compiled_ms # <<>>
            /\ Compiled_ms[1].mode = "obfuscate"
            /\ NoPlaceholderText(secValue))
               => Occurrences(FirstString(secRedacted[1]), placeholderToken(Compiled_ms[1].index[1]))
                      = Occurrences(FirstString(secValue), Compiled_ms[1].content)
        /\ (/\ Len(Compiled_ms) = 1
            /\ Compiled_ms[1].mode = "obfuscate"
            /\ Compiled_ms[1].content = <<"a", "b">>
            /\ secValue = Str(<<"a", "a", "b">>))
               => secRedacted[1] = Str(<<"a">> \o Token0)

C28_Witness ==
    /\ secRedacted # <<>>
    /\ Len(Compiled_ms) = 1
    /\ Compiled_ms[1].content = <<"b">>
    /\ secValue = Str(<<"b", "a", "b">>)
    /\ secRedacted[1] = Str(Token0 \o <<"a">> \o Token0)

\* C29: in the compiled matcher set the obfuscate entries carry strictly
\* increasing placeholder indices along the merge order, every
\* environment-derived entry comes before every file entry, no two entries
\* have the same content, and no step of the session changes the matcher
\* set once it is compiled.
C29_Shape ==
    matcherSet # <<>> =>
        /\ \A j, k \in DOMAIN Compiled_ms :
               (j < k /\ Compiled_ms[j].mode = "obfuscate" /\ Compiled_ms[k].mode = "obfuscate")
                   => Compiled_ms[j].index[1] < Compiled_ms[k].index[1]
        /\ \A j, k \in DOMAIN Compiled_ms :
               (Compiled_ms[j].origin = "env" /\ Compiled_ms[k].origin # "env") => j < k
        /\ \A j, k \in DOMAIN Compiled_ms :
               j # k => Compiled_ms[j].content # Compiled_ms[k].content
        /\ \A k \in DOMAIN Compiled_ms :
               Compiled_ms[k].mode = "obfuscate" => Compiled_ms[k].index[1] >= 0

C29_IndicesStable ==
    [][/\ matcherSet # <<>> => matcherSet' = matcherSet
       /\ C29_Shape']_vars

C29_Witness ==
    /\ secRestored # <<>>
    /\ secDirect # <<>>
    /\ Len(Compiled_ms) = 2
    /\ Compiled_ms[1].origin = "env"
    /\ Compiled_ms[1].index = <<0>>
    /\ Compiled_ms[2].origin = "project"
    /\ Compiled_ms[2].index = <<1>>

\* C30: restore is total; it returns a value without placeholder tokens
\* as it is; it keeps the shape of the value and every non-string leaf at
\* any depth; and in a string it replaces the token of a known entry by
\* the entry's content and leaves the text around the token alone.
C30_RestoreIdentity ==
    secDirect # <<>> =>
        /\ NoPlaceholderText(secValue) => secDirect[1] = secValue
        /\ Skeleton(secDirect[1]) = Skeleton(secValue)
        /\ \A n \in 0..1 :
               LET s == FirstString(secValue)
                   tok == TokenOpen \o <<digitChar(n)>> \o TokenClose
               IN  \A k \in 0..Len(s) :
                       (/\ startsWith(drop(s, k), tok)
                        /\ ~HasTokenText(SubSeq(s, 1, k))
                        /\ ~HasTokenText(drop(s, k + Len(tok)))
                        /\ \E j \in DOMAIN Compiled_ms : Compiled_ms[j].index = <<n>>)
                           => \E j \in DOMAIN Compiled_ms :
                                  /\ Compiled_ms[j].index = <<n>>
                                  /\ FirstString(secDirect[1]) =
                                         SubSeq(s, 1, k) \o Compiled_ms[j].content
                                             \o drop(s, k + Len(tok))

C30_Witness ==
    /\ secDirect # <<>>
    /\ secValue.t = "mapping"
    /\ "n" \in DOMAIN secValue.v
    /\ FirstString(secValue) = Token0
    /\ Len(Compiled_ms) >= 1
    /\ Compiled_ms[1].index = <<0>>
    /\ FirstString(secDirect[1]) = Compiled_ms[1].content
    /\ secDirect[1].v["n"] = Leaf(TRUE)

\* the replacement a replace-mode match is to become: the configured one, or
\* by default one mask character for each character of the content
ReplacementOf(m) ==
    IF m.replacement # <<>> THEN m.replacement[1]
    ELSE [j \in DOMAIN m.content |-> MaskChar]

ReplacementChars == {MaskChar} \cup {CustomReplacement[k] : k \in DOMAIN CustomReplacement}

CountIn(s, cs) == Cardinality({k \in DOMAIN s : s[k] \in cs})

\* the replace-mode entries of a matcher set, by position
ReplaceEntries(ms) == {k \in DOMAIN ms : ms[k].mode = "replace"}

\* the text as entry k of the matcher set finds it, and as it leaves it:
\* the entries compiled before it (and then it) have been applied
ScannedBy(x, ms, k) == redact(x, SubSeq(ms, 1, k - 1))
LeftBy(x, ms, k) == redact(x, SubSeq(ms, 1, k))

\* two contents have a character in common
Overlap(c, d) == \E i \in DOMAIN c, j \in DOMAIN d : c[i] = d[j]

\* a replace-mode entry has no placeholder index and no index leads to it
NeverRecorded(ms) ==
    /\ \A k \in ReplaceEntries(ms) : ms[k].index = <<>>
    /\ \A n \in 0 .. Len(ms) :
           contentOfIndex(ms, n) # <<>> =>
               \E k \in DOMAIN ms : /\ ms[k].mode = "obfuscate"
                                    /\ ms[k].index = <<n>>
                                    /\ ms[k].content = contentOfIndex(ms, n)[1]

\* every occurrence a replace-mode entry finds when it is scanned becomes its
\* configured replacement, or by default as many mask characters as the
\* content is long, and none is left; this for entries at every position
FixedShape(x, ms) ==
    \A k \in ReplaceEntries(ms) :
        LET m == ms[k]
            before == ScannedBy(x, ms, k)
            after == LeftBy(x, ms, k)
            n == Occurrences(before, m.content)
        IN  /\ ~includes(after, m.content)
            /\ CountIn(after, ReplacementChars)
                   = CountIn(before, ReplacementChars) + n * Len(ReplacementOf(m))
            /\ Len(after) = Len(before) + n * (Len(ReplacementOf(m)) - Len(m.content))

\* C31 as stated: a replace-mode match is substituted by a fixed-shape
\* replacement, is never given a placeholder and is never recorded for
\* restoration, and restore applied to redacted text never yields the
\* content of a replace-mode secret.
C31_ReplaceNeverRecovered ==
    /\ matcherSet # <<>> => NeverRecorded(Compiled_ms)
    /\ secRedacted # <<>> => FixedShape(FirstString(secValue), Compiled_ms)
    /\ secRestored # <<>> =>
           \A k \in ReplaceEntries(Compiled_ms) :
               \A s \in StringsOf(secRestored[1]) : ~includes(s, Compiled_ms[k].content)

\* C31, amended: a replace-mode entry at any position has no placeholder
\* index and no index leads to it; every occurrence of its content that is in
\* the text when the entry is scanned becomes the configured replacement, or
\* by default as many mask characters as the content is long, so no string of
\* the redacted value holds the content; restore leaves the replacements as
\* they are, and the restored text holds the content of a replace-mode secret
\* only where restore expanded the placeholder of an obfuscate-mode secret
\* whose content overlaps it; without such a placeholder in the redacted
\* text the restored text is the redacted one.
C31_ReplaceOneWay ==
    /\ matcherSet # <<>> => NeverRecorded(Compiled_ms)
    /\ secRedacted # <<>> =>
           /\ FixedShape(FirstString(secValue), Compiled_ms)
           /\ \A k \in ReplaceEntries(Compiled_ms) :
                  \A s \in StringsOf(secRedacted[1]) : ~includes(s, Compiled_ms[k].content)
    /\ secRestored # <<>> =>
           LET r == FirstString(secRedacted[1])
               t == FirstString(secRestored[1])
               expanded == {j \in DOMAIN Compiled_ms :
                               /\ Compiled_ms[j].mode = "obfuscate"
                               /\ includes(r, placeholderToken(Compiled_ms[j].index[1]))}
           IN  /\ CountIn(t, ReplacementChars) = CountIn(r, ReplacementChars)
               /\ expanded = {} => t = r
               /\ \A k \in ReplaceEntries(Compiled_ms) :
                      includes(t, Compiled_ms[k].content) =>
                          \E j \in expanded :
                              Overlap(Compiled_ms[j].content, Compiled_ms[k].content)

\* a replace-mode secret scanned second, after an obfuscate-mode secret it
\* shares nothing with: masked, and still masked after restore
C31_Witness ==
    /\ secRestored # <<>>
    /\ Len(Compiled_ms) = 2
    /\ Compiled_ms[1].mode = "obfuscate"
    /\ Compiled_ms[1].content = <<"b">>
    /\ Compiled_ms[2].mode = "replace"
    /\ Compiled_ms[2].content = <<"a">>
    /\ secValue = Str(<<"a", "b", "a">>)
    /\ secRedacted[1] = Str(<<"*">> \o Token0 \o <<"*">>)
    /\ secRestored[1] = Str(<<"*", "b", "*">>)

EntriesWith(entries, c) == SelectSeq(entries, LAMBDA e : e.content = c)

\* C32: the compiled set holds at most one entry per content; for a content
\* the project file lists, the entry is the project's; otherwise, for a
\* content the global file lists, the global one; an environment entry is
\* kept only for a content no file lists.
C32_MergePrecedence ==
    matcherSet # <<>> =>
        \A c \in SecretContents :
            LET kept == EntriesWith(Compiled_ms, c)
                winner == IF EntriesWith(secConfig.project, c) # <<>>
                          THEN EntriesWith(secConfig.project, c)
                          ELSE IF EntriesWith(secConfig.global, c) # <<>>
                          THEN EntriesWith(secConfig.global, c)
                          ELSE EntriesWith(secConfig.env, c)
            IN  /\ Len(kept) <= 1
                /\ Len(kept) = Len(winner)
                /\ kept # <<>> =>
                       /\ kept[1].origin = winner[1].origin
                       /\ kept[1].mode = winner[1].mode
                       /\ kept[1].replacement = winner[1].replacement

C32_Witness ==
    /\ matcherSet # <<>>
    /\ secConfig.env # <<>>
    /\ secConfig.global # <<>>
    /\ secConfig.project # <<>>
    /\ secConfig.env[1].content = <<"a", "b">>
    /\ secConfig.global[1].content = <<"a", "b">>
    /\ secConfig.global[1].mode = "obfuscate"
    /\ secConfig.project[1].content = <<"a", "b">>
    /\ secConfig.project[1].mode = "replace"
    /\ Len(Compiled_ms) = 1
    /\ Compiled_ms[1].origin = "project"
    /\ Compiled_ms[1].mode = "replace"
    /\ Compiled_ms[1].index = <<>>

(* --------- a caller that issues pushes without awaiting them ----------- *)

\* the chunks of the unawaited pushes
ConcChunks == {<<"a">>, <<"b">>, <<"a", "b">>}

\* sink.push(chunk) while earlier pushes are still at their awaits
ConcPush ==
    /\ dpc = "none"
    /\ Len(frames) < MaxPushes
    /\ \E data \in ConcChunks : PushCall(data)
    /\ UNCHANGED <<spillThreshold, onChunk, dpc, dumpNotice, dumpResult, dumpCalls,
                   execVars>>
    /\ UNCHANGED extVars

ConcNext == ConcPush \/ SinkPushAppend \/ SinkPushTrim

SpecConc == SinkInit /\ [][ConcNext]_vars

\* the pushes that were at an await at the same time as a later push
InFlight == {i \in 1 .. Len(frames) : ~PushSettled(frames[i])}

RECURSIVE SumLen(_)
SumLen(ss) == IF ss = <<>> THEN 0 ELSE Len(Head(ss)) + SumLen(Tail(ss))

\* C33: for any interleaving of pushes, awaited or not, the path allocator is
\* called at most once per sink; a file that exists holds the path of that
\* one call and is never ended by a push; a push that has passed its write
\* while the file exists is in the file, and when every push has settled
\* the file holds every character pushed.
C33_SpillFileOpenedOnce ==
    /\ sink.allocs <= 1
    /\ sink.file # NoFile <=> sink.allocs = 1
    /\ sink.file # NoFile =>
           /\ sink.file[1].path = 1
           /\ ~sink.file[1].ended
           /\ Len(sink.file[1].content) =
                  SumLen(Pushed) - SumLen([i \in 1 .. Len(frames) |->
                                              IF frames[i].pc = "fileSink"
                                              THEN frames[i].data ELSE <<>>])
           /\ \A c \in Chars : Count(sink.file[1].content, c) =
                  Count(Text, c) - Count(Concat([i \in 1 .. Len(frames) |->
                                              IF frames[i].pc = "fileSink"
                                              THEN frames[i].data ELSE <<>>]), c)
    /\ \A i \in 1 .. Len(frames) :
           frames[i].pc = "fileSink" => sink.file # NoFile

C33_Witness ==
    /\ Len(frames) = 3
    /\ AllPushesDone
    /\ sink.allocs = 1
    /\ spillThreshold = 1
    /\ Pushed = <<<<"a">>, <<"a", "b">>, <<"b">>>>
    /\ sink.file[1].content = <<"a", "b", "a", "b">>

(* --------------- the spill writer on every exit path ------------------- *)

\* C34: whenever executeBash has settled, by returning a result or by
\* rejecting, a spill writer that was opened for the invocation is ended.
C34_WriterClosedOnExit ==
    (epc \in {"settled", "rejected"} /\ sink.file # NoFile) => sink.file[1].ended

\* the part of C34 that holds: the writer is ended on every exit path that
\* returns a result
C34_WriterClosedOnReturn ==
    (epc = "settled" /\ sink.file # NoFile) => sink.file[1].ended

(* ------------------- executeBash runs to its end ----------------------- *)

\* The event loop runs every continuation that is ready, the runtime's run
\* call settles, and every write of the sink settles; the runtime is free
\* to deliver further chunks or not.
ObsFairness ==
    /\ WF_vars(ExecRun)
    /\ WF_vars(RuntimeResolve \/ RuntimeReject)
    /\ WF_vars(QueuePush)
    /\ WF_vars(QueuePushAppend)
    /\ WF_vars(QueuePushTrim)
    /\ WF_vars(ExecClassify)
    /\ WF_vars(ExecDumpReturn)
    /\ WF_vars(ExecReturn)
    /\ WF_vars(ExecFinally)

SpecObsFair == ObsInit /\ [][ObsNext]_vars /\ ObsFairness

\* C35: executeBash eventually settles, by returning or by rejecting, and
\* the push of every chunk the runtime delivered is eventually started and
\* settled, whether or not a push before it failed.
C35_EventuallySettles ==
    /\ <>(epc \in {"settled", "rejected"})
    /\ \A k \in 1 .. MaxExecChunks :
           (Len(delivered) >= k) ~> (Len(frames) >= k /\ PushSettled(frames[k]))

C35_Witness ==
    /\ epc = "settled"
    /\ Len(frames) = 2
    /\ frames[1].pc = "failed"
    /\ frames[2].pc = "done"
    /\ result # <<>>
    /\ result[1].output = <<"b">>

(* ------------------- timeout and cancellation together ----------------- *)

\* C36: when the runtime reports both timedOut and cancelled, the result is
\* the timeout's: no exit code, cancelled, and an output that is the
\* timeout notice line followed by the sink's text, with no second notice
\* line and no cancellation notice.
C36_TimeoutBeforeCancel ==
    (/\ result # <<>>
     /\ report # <<>>
     /\ report[1].timedOut
     /\ report[1].cancelled)
        => /\ result[1].exitCode = <<>>
           /\ result[1].cancelled
           /\ StartsWithNotice(result[1].output, timeoutAnnotation(timeout))
           /\ ~StartsWithNotice(result[1].output, CancelNotice)
           /\ Count(result[1].output, "[") = 1
           /\ Count(result[1].output, "\n") = 1
           /\ \A k \in 1 .. Len(result[1].output) : result[1].output[k] # "Command cancelled"

C36_Witness ==
    /\ epc = "settled"
    /\ report # <<>>
    /\ report[1].timedOut
    /\ report[1].cancelled
    /\ aborted
    /\ interrupts # <<>>
    /\ timeout = <<1600>>
    /\ result[1].output = <<"[", "Command timed out after ", "2", " seconds", "]", "\n", "a">>

(* ----------------- when an entry is read as a literal ------------------ *)

FlagLetters == {"g", "i", "m", "s", "u", "y"}

\* no "/" in b but after a backslash
RECURSIVE NoUnescapedSlash(_)
NoUnescapedSlash(b) ==
    IF b = <<>> THEN TRUE
    ELSE IF b[1] = "\\" THEN Len(b) >= 2 /\ NoUnescapedSlash(SubSeq(b, 3, Len(b)))
    ELSE b[1] # "/" /\ NoUnescapedSlash(Tail(b))

\* the positions of a closing slash: flag letters only behind it, no
\* unescaped slash between it and the opening one
DelimiterEnds(content) ==
    {k \in 2 .. Len(content) :
        /\ content[k] = "/"
        /\ \A j \in k + 1 .. Len(content) : content[j] \in FlagLetters
        /\ NoUnescapedSlash(SubSeq(content, 2, k - 1))}

DelimiterLiteral(content) ==
    content # <<>> /\ content[1] = "/" /\ DelimiterEnds(content) # {}

\* what compiling the entry as a literal, or whole, has to give
CompiledAsStated(content) ==
    IF DelimiterLiteral(content)
    THEN LET k == CHOOSE j \in DelimiterEnds(content) : TRUE
         IN  newRegExp(SubSeq(content, 2, k - 1),
                       enforceGlobalFlag(dedupe(GivenFlags \o SubSeq(content, k + 1, Len(content)))))
    ELSE newRegExp(content, enforceGlobalFlag(GivenFlags))

\* C37: an entry is compiled as a literal exactly when it reads
\* /pattern/flags with flag letters from g, i, m, s, u, y and no unescaped
\* slash inside; every other entry, one with any other character behind the
\* last slash included, is compiled whole with the flags of its field.
C37_LiteralDetection ==
    rxResult # <<>> => rxResult[1] = CompiledAsStated(rxInput[1].content)

\* the part of C37 that holds: entries with no blank behind their last
\* slash are compiled as the claim states
C37_LiteralDetectionNoBlank ==
    (/\ rxResult # <<>>
     /\ \A k \in 1 .. Len(rxInput[1].content) :
            (rxInput[1].content[k] = " ") =>
                \E j \in k + 1 .. Len(rxInput[1].content) : rxInput[1].content[j] = "/")
        => rxResult[1] = CompiledAsStated(rxInput[1].content)

(* ----------------------------- VoiceCapture ---------------------------- *)

MaxStarts == 2
MaxStops == 2

nonVoiceVars == <<sinkVars, execVars, settings, runLog, pair, pairInterrupts,
                  rxInput, rxResult, secVars>>

\* the reasons a caller stops with, and those the monitor stops with
CallerReasons == {"manual", "error"}
MonitorReasons == {"silence", "max"}

\* new VoiceCapture(options)
NewCapture ==
    [stream |-> <<>>, recorder |-> <<>>, analyser |-> FALSE, chunks |-> 0,
     speechDetectedAt |-> FALSE, stopPromise |-> <<>>, stopReason |-> "manual",
     monitorTimer |-> <<>>, isStopping |-> FALSE, isRecording |-> FALSE]

\* the browser before any call: no stream, no recorder, no promise, no timer
NoMedia == [streams |-> <<>>, recorders |-> <<>>, promises |-> <<>>, timers |-> <<>>]

\* cleanup(): the timer the capture knows is cleared, the tracks of the
\* stream it knows are stopped, and its fields are reset
cleanup_keepStream(c, m) ==
    [capture |-> [c EXCEPT !.monitorTimer = <<>>, !.stream = <<>>, !.analyser = FALSE,
                           !.recorder = <<>>, !.chunks = 0, !.isStopping = FALSE],
     media |-> [m EXCEPT !.timers = IF c.monitorTimer # <<>>
                                    THEN [@ EXCEPT ![c.monitorTimer[1]] = FALSE]
                                    ELSE @]]

cleanup(c, m) ==
    [capture |-> [c EXCEPT !.monitorTimer = <<>>, !.stream = <<>>, !.analyser = FALSE,
                           !.recorder = <<>>, !.chunks = 0, !.isStopping = FALSE],
     media |-> [m EXCEPT !.timers = IF c.monitorTimer # <<>>
                                    THEN [@ EXCEPT ![c.monitorTimer[1]] = FALSE]
                                    ELSE @,
                         !.streams = IF c.stream # <<>>
                                     THEN [@ EXCEPT ![c.stream[1]].stopped = TRUE]
                                     ELSE @]]

\* the VoiceCaptureResult finish() builds; its mimeType is
\* `this.recorder?.mimeType || null`: no recorder, or a recorder whose
\* mimeType is the empty string, gives null
finishResult(c, m) ==
    [blob |-> IF c.speechDetectedAt /\ c.chunks > 0 THEN "blob" ELSE "null",
     reason |-> c.stopReason,
     durationMs |-> "elapsed",
     mimeType |-> IF c.recorder # <<>> /\ m.recorders[c.recorder[1]].mimeType # ""
                  THEN m.recorders[c.recorder[1]].mimeType
                  ELSE "null"]

\* resolve(result) on a promise: the first resolution stays
resolve(promises, p, res) ==
    IF p # <<>> /\ promises[p[1]] = <<>>
    THEN [promises EXCEPT ![p[1]] = <<res>>]
    ELSE promises

\* finish(), the recorder's onstop handler
finish(c, m) ==
    LET stopped == [c EXCEPT !.isRecording = FALSE]
        res == finishResult(stopped, m)
        cleaned == cleanup(stopped, m)
    IN  [capture |-> cleaned.capture,
         media |-> [cleaned.media EXCEPT !.promises = resolve(@, c.stopPromise, res)]]

\* recorder.stop() on the recorder the capture knows
recorderStop(m, r) ==
    [m EXCEPT !.recorders[r].stops = @ + 1,
              !.recorders[r].state = IF @ = "recording" THEN "stopping" ELSE @]

stop_again(c, m, reason) ==
    IF c.recorder = <<>> \/ ~c.isRecording
    THEN [capture |-> c, media |-> m,
          returned |-> <<"result", [blob |-> "null", reason |-> reason,
                                    durationMs |-> "0", mimeType |-> "null"]>>]
    ELSE [capture |-> [c EXCEPT !.isStopping = TRUE, !.stopReason = reason],
          media |-> recorderStop(m, c.recorder[1]),
          returned |-> <<"promise", c.stopPromise[1]>>]

\* stop(reason)
stop(c, m, reason) ==
    IF c.recorder = <<>> \/ ~c.isRecording
    THEN [capture |-> c, media |-> m,
          returned |-> <<"result", [blob |-> "null", reason |-> reason,
                                    durationMs |-> "0", mimeType |-> "null"]>>]
    ELSE IF c.isStopping /\ c.stopPromise # <<>>
    THEN [capture |-> c, media |-> m, returned |-> <<"promise", c.stopPromise[1]>>]
    ELSE [capture |-> [c EXCEPT !.isStopping = TRUE, !.stopReason = reason],
          media |-> recorderStop(m, c.recorder[1]),
          returned |-> <<"promise", c.stopPromise[1]>>]

\* start() resumed after `await getUserMedia(...)`, to its return; mime is
\* the mimeType the new MediaRecorder reports: the type it records with, or
\* the empty string when none is set
startGranted(c, m, mime) ==
    LET s == Len(m.streams) + 1
        r == Len(m.recorders) + 1
        p == Len(m.promises) + 1
        t == Len(m.timers) + 1
    IN  [capture |-> [c EXCEPT !.stream = <<s>>, !.recorder = <<r>>, !.chunks = 0,
                               !.speechDetectedAt = FALSE, !.stopReason = "manual",
                               !.isStopping = FALSE, !.isRecording = TRUE,
                               !.stopPromise = <<p>>, !.analyser = TRUE,
                               !.monitorTimer = <<t>>],
         media |-> [streams |-> Append(m.streams, [stopped |-> FALSE]),
                    recorders |-> Append(m.recorders,
                                         [stream |-> s, state |-> "recording", stops |-> 0,
                                          mimeType |-> mime]),
                    promises |-> Append(m.promises, <<>>),
                    timers |-> Append(m.timers, TRUE)],
         returned |-> p]

\* one stop() call, noted with what it found and what it returned
StopCall(reason, by) ==
    LET r == stop(capture, media, reason)
    IN  /\ Len(stopCalls) < MaxStops
        /\ capture' = r.capture
        /\ media' = r.media
        /\ stopCalls' = Append(stopCalls,
               [reason |-> reason, by |-> by,
                recorder |-> capture.recorder,
                recording |-> capture.recorder # <<>> /\ capture.isRecording,
                stopping |-> capture.isStopping,
                returned |-> r.returned,
                changed |-> r.capture # capture \/ r.media # media])
        /\ UNCHANGED startCalls

\* start(): it returns the pending promise of a recording, or goes on to
\* `await navigator.mediaDevices.getUserMedia({ audio: true })`
VoiceStart ==
    /\ Len(startCalls) < MaxStarts
    /\ startCalls' = Append(startCalls,
           IF capture.isRecording /\ capture.stopPromise # <<>>
           THEN [pc |-> "returned", promise |-> capture.stopPromise]
           ELSE [pc |-> "getUserMedia", promise |-> <<>>])
    /\ UNCHANGED <<capture, media, stopCalls>>
    /\ UNCHANGED nonVoiceVars

\* getUserMedia resolves with a stream and start() runs to its return
MediaGranted ==
    /\ \E i \in 1 .. Len(startCalls) :
           /\ startCalls[i].pc = "getUserMedia"
           /\ \E mime \in {"type", ""} :
              LET r == startGranted(capture, media, mime)
              IN  /\ capture' = r.capture
                  /\ media' = r.media
                  /\ startCalls' = [startCalls EXCEPT ![i] =
                                       [pc |-> "returned", promise |-> <<r.returned>>]]
    /\ UNCHANGED stopCalls
    /\ UNCHANGED nonVoiceVars

\* getUserMedia rejects and start() rejects with it
MediaDenied ==
    /\ \E i \in 1 .. Len(startCalls) :
           /\ startCalls[i].pc = "getUserMedia"
           /\ startCalls' = [startCalls EXCEPT ![i].pc = "rejected"]
    /\ UNCHANGED <<capture, media, stopCalls>>
    /\ UNCHANGED nonVoiceVars

\* a caller calls stop(reason)
VoiceStop ==
    /\ \E reason \in CallerReasons : StopCall(reason, "caller")
    /\ UNCHANGED nonVoiceVars

\* an interval callback that hears speech
MonitorSpeech ==
    /\ \E t \in 1 .. Len(media.timers) : media.timers[t]
    /\ capture.analyser
    /\ ~capture.isStopping
    /\ ~capture.speechDetectedAt
    /\ capture' = [capture EXCEPT !.speechDetectedAt = TRUE]
    /\ UNCHANGED <<media, startCalls, stopCalls>>
    /\ UNCHANGED nonVoiceVars

\* an interval callback that ends the recording: silence after speech, or
\* the maximal duration
MonitorStop ==
    /\ \E t \in 1 .. Len(media.timers) : media.timers[t]
    /\ capture.analyser
    /\ ~capture.isStopping
    /\ \E reason \in MonitorReasons :
           /\ reason = "silence" => capture.speechDetectedAt
           /\ StopCall(reason, "monitor")
    /\ UNCHANGED nonVoiceVars

\* a recorder hands over data: recorder.ondataavailable
DataAvailable ==
    /\ \E r \in 1 .. Len(media.recorders) : media.recorders[r].state # "inactive"
    /\ capture.chunks = 0
    /\ capture' = [capture EXCEPT !.chunks = 1]
    /\ UNCHANGED <<media, startCalls, stopCalls>>
    /\ UNCHANGED nonVoiceVars

\* a recorder that was told to stop fires its stop event: recorder.onstop
RecorderStopped ==
    /\ \E r \in 1 .. Len(media.recorders) :
           /\ media.recorders[r].state = "stopping"
           /\ LET f == finish(capture, [media EXCEPT !.recorders[r].state = "inactive"])
              IN  /\ capture' = f.capture
                  /\ media' = f.media
    /\ UNCHANGED <<startCalls, stopCalls>>
    /\ UNCHANGED nonVoiceVars

\* a recorder whose stream has lost its tracks stops by itself: recorder.onstop
RecorderEnded ==
    /\ \E r \in 1 .. Len(media.recorders) :
           /\ media.recorders[r].state = "recording"
           /\ media.streams[media.recorders[r].stream].stopped
           /\ LET f == finish(capture, [media EXCEPT !.recorders[r].state = "inactive"])
              IN  /\ capture' = f.capture
                  /\ media' = f.media
    /\ UNCHANGED <<startCalls, stopCalls>>
    /\ UNCHANGED nonVoiceVars

VoiceInit ==
    /\ capture = NewCapture
    /\ media = NoMedia
    /\ startCalls = <<>>
    /\ stopCalls = <<>>
    /\ SinkIdle
    /\ ExecIdle
    /\ InvokeIdle
    /\ PairIdle
    /\ RegexIdle
    /\ SecretsIdle

VoiceNext ==
    \/ VoiceStart
    \/ MediaGranted
    \/ MediaDenied
    \/ VoiceStop
    \/ MonitorSpeech
    \/ MonitorStop
    \/ DataAvailable
    \/ RecorderStopped
    \/ RecorderEnded

SpecVoice == VoiceInit /\ [][VoiceNext]_vars

\* the result of a stop() on a capture that is not recording
NullResult(reason) ==
    [blob |-> "null", reason |-> reason, durationMs |-> "0", mimeType |-> "null"]

\* stop() call k found a recording that no stop() was stopping yet
FirstStop(k) == stopCalls[k].recording /\ ~stopCalls[k].stopping

\* C38: no recorder is told to stop more than once; a stop() on a recording
\* that is not yet stopping stops its recorder and returns the pending
\* promise; a stop() made while stopping changes nothing and returns the
\* promise the first stop() of that recording returned; the result that
\* promise resolves with carries the reason of the first stop(); a stop() on
\* a capture that is not recording returns a result with a null blob and
\* duration 0 and changes nothing.
C38_StopOnce ==
    /\ \A r \in 1 .. Len(media.recorders) : media.recorders[r].stops <= 1
    /\ \A k \in 1 .. Len(stopCalls) :
           LET call == stopCalls[k]
           IN  /\ ~call.recording =>
                      /\ call.returned = <<"result", NullResult(call.reason)>>
                      /\ ~call.changed
               /\ FirstStop(k) =>
                      /\ call.returned[1] = "promise"
                      /\ call.changed
                      /\ media.recorders[call.recorder[1]].stops = 1
                      /\ media.promises[call.returned[2]] # <<>> =>
                             media.promises[call.returned[2]][1].reason = call.reason
               /\ (call.recording /\ call.stopping) =>
                      /\ ~call.changed
                      /\ \E j \in 1 .. k - 1 :
                             /\ FirstStop(j)
                             /\ stopCalls[j].recorder = call.recorder
                             /\ stopCalls[j].returned = call.returned

C38_Witness ==
    /\ Len(stopCalls) = 2
    /\ Len(media.recorders) = 1
    /\ FirstStop(1)
    /\ stopCalls[1].reason = "error"
    /\ stopCalls[2].recording
    /\ stopCalls[2].stopping
    /\ stopCalls[2].reason = "manual"
    /\ stopCalls[2].returned = stopCalls[1].returned
    /\ ~stopCalls[2].changed
    /\ media.recorders[1].stops = 1
    /\ media.promises[1] # <<>>
    /\ media.promises[1][1].reason = "error"

\* the streams whose tracks are live
HeldStreams == {st \in 1 .. Len(media.streams) : ~media.streams[st].stopped}

\* no recording, none being started, no recorder about to report its stop
CaptureFinished ==
    /\ ~capture.isRecording
    /\ \A i \in 1 .. Len(startCalls) : startCalls[i].pc # "getUserMedia"
    /\ \A r \in 1 .. Len(media.recorders) : media.recorders[r].state # "stopping"

\* C39: at most one microphone stream is held at any time, and when the
\* capture has finished every stream that was acquired has its tracks
\* stopped.
C39_OneStreamHeld ==
    /\ Cardinality(HeldStreams) <= 1
    /\ CaptureFinished => HeldStreams = {}

\* the part of C39 that holds: with one start() at a time, one stream is
\* held at most and none once the capture has finished
C39_OneStreamHeldSequential ==
    Len(media.streams) <= 1 => C39_OneStreamHeld

=============================================================================
